---------------------------- MODULE Spec2Model ----------------------------
(***************************************************************************)
(* A model of usconstitution.app: the build-time content generator         *)
(* (scripts/build-content.mjs), the client-side filter layer (src/app.js)  *)
(* and the service worker (public/sw.js).                                  *)
(*                                                                         *)
(* JavaScript strings are sequences of one-character strings, so that      *)
(* substring search, lower-casing, trimming and URL encoding are computed  *)
(* character by character.  JavaScript values of varying type are records  *)
(* tagged by their typeof: [t |-> "number", v |-> 3], [t |-> "null"], ...  *)
(***************************************************************************)
EXTENDS Integers, Sequences, FiniteSets, TLC

VARIABLES
    \* build-content.mjs, main()
    rawData,        \* the parsed constitution.json
    entries,        \* normalize's result
    buildPc,        \* position of main
    tocHtml,        \* buildToc's result
    contentHtml,    \* buildContent's result (the blocks array)
    searchIndexOut, \* the projection written to search-index.json
    llmMd,          \* buildLlmMarkdown's result
    written,        \* the files written so far, in order
    indexHtml,      \* src/index.html, the page template
    \* injectGenerated, applied to arbitrary arguments
    injSource,      \* sourceHtml
    injMarkers,     \* [start, end]: startMarker and endMarker
    injContent,     \* content
    injResult,      \* what the call returned
    injPc,          \* "ready", "once", "twice" or "thrown"
    \* src/app.js, initialize()
    cPageData,      \* the records the page was built from
    cIndexData,     \* the records the search index was built from
    cElements,      \* entryElements: the dataset of each .entry element
    cHeadings,      \* sectionHeadings: the id of each heading
    cLoaded,        \* whether loadIndex has resolved and its callback has run
    cIndex,         \* searchIndex
    cControls,      \* the values of the search input and the four selects
    cState,         \* state
    cHidden,        \* per entry element: whether it has the class is-hidden
    cAriaHidden,    \* per entry element: its aria-hidden attribute
    cHeadingHidden, \* per heading: whether it has the class is-hidden
    cResults,       \* the numbers in the text of #results-count
    cSummary,       \* the text of #active-filters
    cSearch,        \* window.location.search
    \* the service worker
    swStatus,       \* the worker's state: parsed, installed, activated, redundant
    swCaches,       \* the cache storage: cache name -> list of entries
    swVersion,      \* the deploy of the site the server holds
    swReq,          \* the request of the fetch event being handled
    swPc,           \* where the handling of that request stands
    swSeen,         \* the cache as the handler's cache.match saw it
    swNet,          \* how the handler's fetch settled: none, ok, notok, failed
    swNetResponse,  \* the response the handler's fetch resolved with
    swResponse,     \* the value the promise given to respondWith resolved with
    swPuts,         \* the cache.put calls still running
    \* src/app.js, initializeViewControls()
    vPc,            \* "loading" until initializeViewControls has run, then "ready"
    storageWorks,   \* whether window.localStorage can be read and written
    storedFontScale,    \* the item usconstitution-font-scale
    storedShowHeaders,  \* the item usconstitution-show-entry-headers
    fontScale,      \* the variable fontScale
    showHeaders,    \* the variable showHeaders
    readerFontScale,    \* the property --reader-font-scale of the root element
    hideEntryHeaders,   \* whether the root element has the class hide-entry-headers
    sizeOutput,     \* the text of #font-size-value
    headersChecked, \* whether #toggle-entry-headers is checked
    decreaseDisabled,   \* whether #font-size-decrease is disabled
    increaseDisabled,   \* whether #font-size-increase is disabled
    \* src/app.js, initialize(): the drawer
    hasMatchMedia,  \* whether window.matchMedia exists
    viewportNarrow, \* whether the viewport is at most 1080px wide
    sidebarOpen,    \* whether the body has the class sidebar-open
    noScroll,       \* whether the body has the class no-scroll
    ariaExpanded,   \* aria-expanded of #mobile-search-toggle
    ariaLabel,      \* aria-label of #mobile-search-toggle
    backdropHidden, \* whether #sidebar-backdrop is hidden
    showSearchTrigger,  \* whether the body has the class show-mobile-search-trigger
    disclosureOpen, \* whether .controls-disclosure is open
    scrollTarget    \* the id scrollToTargetId went to last: the hash, the scroll, the focus

buildVars == <<rawData, entries, buildPc, tocHtml, contentHtml, searchIndexOut, llmMd,
               written, indexHtml>>

injectVars == <<injSource, injMarkers, injContent, injResult, injPc>>

clientVars == <<cPageData, cIndexData, cElements, cHeadings, cLoaded, cIndex, cControls,
                cState, cHidden, cAriaHidden, cHeadingHidden, cResults, cSummary, cSearch>>

swVars == <<swStatus, swCaches, swVersion, swReq, swPc, swSeen, swNet, swNetResponse,
            swResponse, swPuts>>

viewVars == <<vPc, storageWorks, storedFontScale, storedShowHeaders, fontScale, showHeaders,
              readerFontScale, hideEntryHeaders, sizeOutput, headersChecked,
              decreaseDisabled, increaseDisabled>>

drawerVars == <<hasMatchMedia, viewportNarrow, sidebarOpen, noScroll, ariaExpanded,
                ariaLabel, backdropHidden, showSearchTrigger, disclosureOpen, scrollTarget>>

vars == <<buildVars, injectVars, clientVars, swVars, viewVars, drawerVars>>

---------------------------------------------------------------------------
(* Bounds of the model *)

\* the number of records of constitution.json
MaxRecords == 3

\* the length of the page handed to injectGenerated, in symbols
MaxSourceLen == 4

\* the length of the content handed to injectGenerated, in symbols
MaxContentLen == 2

\* the length of the text typed into the search input, in characters
MaxQueryLen == 2

\* the number of deploys of the site the service worker lives through
MaxDeploys == 2

\* the number of cache.put calls that may still run when a request arrives
MaxPendingPuts == 1

---------------------------------------------------------------------------
(* JavaScript values and strings *)

Undef == [t |-> "undefined"]
Null == [t |-> "null"]
Num(n) == [t |-> "number", v |-> n]
Str(s) == [t |-> "string", v |-> s]
\* the number n + 0.5: a number that is no integer
Half(n) == [t |-> "number", v |-> n, half |-> TRUE]

\* Number.isInteger, for a value of type number
IsInteger(x) == x.t = "number" /\ DOMAIN x = {"t", "v"}

Arr(a) == [t |-> "array", v |-> a]

UpperLetters == <<"A","B","C","D","E","F","G","H","I","J","K","L","M",
                  "N","O","P","Q","R","S","T","U","V","W","X","Y","Z">>
LowerLetters == <<"a","b","c","d","e","f","g","h","i","j","k","l","m",
                  "n","o","p","q","r","s","t","u","v","w","x","y","z">>
Digits == <<"0","1","2","3","4","5","6","7","8","9">>

IsDigit(c) == \E i \in 1..10 : Digits[i] = c

DigitValue(c) == (CHOOSE i \in 1..10 : Digits[i] = c) - 1

\* String.prototype.toLowerCase, one character
LowerChar(c) ==
    IF \E i \in 1..26 : UpperLetters[i] = c
    THEN LowerLetters[CHOOSE i \in 1..26 : UpperLetters[i] = c]
    ELSE c

\* String.prototype.toLowerCase
ToLowerCase(s) == [i \in 1..Len(s) |-> LowerChar(s[i])]

\* s has t at (1-based) position i
HasAt(s, t, i) ==
    /\ i >= 1
    /\ i + Len(t) - 1 <= Len(s)
    /\ \A k \in 1..Len(t) : s[i + k - 1] = t[k]

\* String.prototype.includes
Includes(s, t) == \E i \in 1..(Len(s) + 1) : HasAt(s, t, i)

\* Whitespace as String.prototype.trim sees it, within the model's alphabet
IsSpace(c) == c \in {" ", "\n", "\t"}

RECURSIVE TrimStart(_)
TrimStart(s) == IF s # <<>> /\ IsSpace(Head(s)) THEN TrimStart(Tail(s)) ELSE s

RECURSIVE TrimEnd(_)
TrimEnd(s) ==
    IF s # <<>> /\ IsSpace(s[Len(s)]) THEN TrimEnd(SubSeq(s, 1, Len(s) - 1)) ELSE s

\* String.prototype.trim
Trim(s) == TrimEnd(TrimStart(s))

\* String(n) for a natural number
RECURSIVE NumToStr(_)
NumToStr(n) == IF n < 10 THEN <<Digits[n + 1]>> ELSE NumToStr(n \div 10) \o <<Digits[(n % 10) + 1]>>

\* Number(s) for a string of decimal digits
RECURSIVE DigitsToNum(_)
DigitsToNum(s) ==
    IF s = <<>> THEN 0 ELSE 10 * DigitsToNum(SubSeq(s, 1, Len(s) - 1)) + DigitValue(s[Len(s)])

AllDigits(s) == \A i \in 1..Len(s) : IsDigit(s[i])

\* Array.prototype.join
RECURSIVE Join(_, _)
Join(ss, sep) ==
    IF ss = <<>> THEN <<>>
    ELSE IF Len(ss) = 1 THEN ss[1]
    ELSE ss[1] \o sep \o Join(Tail(ss), sep)

S_null == <<"n","u","l","l">>
S_undefined == <<"u","n","d","e","f","i","n","e","d">>

\* String(value), and a template literal's ${value}
JSString(x) ==
    CASE x.t = "string" -> x.v
      [] x.t = "number" -> IF IsInteger(x) THEN NumToStr(x.v) ELSE NumToStr(x.v) \o <<".","5">>
      [] x.t = "null" -> S_null
      [] x.t = "undefined" -> S_undefined
      [] OTHER -> <<"[","o","b","j","e","c","t","]">>

\* value ?? ""
OrEmpty(x) == IF x.t \in {"null", "undefined"} THEN Str(<<>>) ELSE x

\* Number(value): [nan |-> TRUE] or [nan |-> FALSE, v |-> n]
ToNumber(x) ==
    CASE x.t = "number" -> [nan |-> FALSE, v |-> x.v]
      [] x.t = "null" -> [nan |-> FALSE, v |-> 0]
      [] x.t = "string" ->
            IF AllDigits(Trim(x.v))
            THEN [nan |-> FALSE, v |-> DigitsToNum(Trim(x.v))]
            ELSE [nan |-> TRUE, v |-> 0]
      [] OTHER -> [nan |-> TRUE, v |-> 0]

---------------------------------------------------------------------------
(* build-content.mjs: the helpers of normalize *)

S_preamble == <<"p","r","e","a","m","b","l","e">>
S_article == <<"a","r","t","i","c","l","e">>
S_amendment == <<"a","m","e","n","d","m","e","n","t">>
S_amend == <<"a","m","e","n","d">>

valueOrNull(value) == IF value.t = "number" THEN value ELSE Null

stringOrNull(value) == IF value.t = "string" /\ Len(value.v) > 0 THEN value ELSE Null

\* the length of the run of digits of s that starts at position i
RECURSIVE DigitRun(_, _)
DigitRun(s, i) == IF i <= Len(s) /\ IsDigit(s[i]) THEN 1 + DigitRun(s, i + 1) ELSE 0

\* /^amend\d+-/.test(id)
AmendPrefix(id) ==
    /\ HasAt(id, S_amend, 1)
    /\ DigitRun(id, 6) >= 1
    /\ HasAt(id, <<"-">>, 6 + DigitRun(id, 6))

getPart(id, type) ==
    IF type = S_preamble THEN S_preamble
    ELSE IF type = S_amendment \/ AmendPrefix(id) THEN S_amendment
    ELSE S_article

getAmendmentNumber(id) ==
    IF AmendPrefix(id) THEN Num(DigitsToNum(SubSeq(id, 6, 5 + DigitRun(id, 6)))) ELSE Null

S_Preamble == <<"P","r","e","a","m","b","l","e">>
S_ArticleSp == <<"A","r","t","i","c","l","e"," ">>
S_AmendmentSp == <<"A","m","e","n","d","m","e","n","t"," ">>
S_SectionSp == <<"S","e","c","t","i","o","n"," ">>
S_ClauseSp == <<"C","l","a","u","s","e"," ">>
S_SubclauseSp == <<"S","u","b","c","l","a","u","s","e"," ">>

buildTitle(entry) ==
    IF entry.part = S_preamble THEN S_Preamble
    ELSE Join(
        <<IF entry.part = S_article
          THEN S_ArticleSp \o JSString(entry.article)
          ELSE S_AmendmentSp \o JSString(entry.amendmentNumber)>>
        \o (IF entry.section # Null THEN <<S_SectionSp \o JSString(entry.section)>> ELSE <<>>)
        \o (IF entry.clause # Null THEN <<S_ClauseSp \o JSString(entry.clause)>> ELSE <<>>)
        \o (IF entry.subclause # Null THEN <<S_SubclauseSp \o JSString(entry.subclause)>> ELSE <<>>),
        <<",", " ">>)

\* entry.searchTags, each mapped with String, or [] when it is no array
NormalizeTags(x) ==
    IF x.t = "array" THEN [i \in 1..Len(x.v) |-> JSString(x.v[i])] ELSE <<>>

\* the searchable blob, were it not lower-cased
buildSearchableCased(text, id, searchTags, title) ==
    Join(<<text, id>> \o searchTags \o <<title>>, <<" ">>)

\* the searchable blob: [text, id, ...searchTags, title].join(" ").toLowerCase()
buildSearchable(text, id, searchTags, title) ==
    ToLowerCase(Join(<<text, id>> \o searchTags \o <<title>>, <<" ">>))

\* isRepealed as normalize computes it from the raw repealedOn
computeIsRepealed(rawRepealedOn) == rawRepealedOn.t \notin {"null", "undefined"}

\* a record of rawData that normalize's map callback throws on
IsInvalidRecord(r) == r.t # "object"

MissingRequired(r) ==
    \/ JSString(OrEmpty(r.id)) = <<>>
    \/ JSString(OrEmpty(r.type)) = <<>>
    \/ JSString(OrEmpty(r.text)) = <<>>
    \/ ToNumber(r.position).nan

\* the callback of rawData.map in normalize, for a record it accepts
normalizeEntry(r) ==
    LET id == JSString(OrEmpty(r.id))
        type == JSString(OrEmpty(r.type))
        text == JSString(OrEmpty(r.text))
        searchTags == NormalizeTags(r.searchTags)
        position == ToNumber(r.position).v
        base == [id |-> id,
                 part |-> getPart(id, type),
                 type |-> type,
                 article |-> valueOrNull(r.article),
                 section |-> valueOrNull(r.section),
                 clause |-> valueOrNull(r.clause),
                 subclause |-> valueOrNull(r.subclause),
                 amendmentNumber |-> getAmendmentNumber(id),
                 isRepealed |-> computeIsRepealed(r.repealedOn),
                 text |-> text,
                 searchTags |-> searchTags,
                 position |-> position,
                 title |-> <<>>,
                 ratifiedOn |-> stringOrNull(r.ratifiedOn),
                 effectiveOn |-> stringOrNull(r.effectiveOn),
                 proposedOn |-> stringOrNull(r.proposedOn),
                 repealedOn |-> stringOrNull(r.repealedOn),
                 searchable |-> <<>>]
        titled == [base EXCEPT !.title = buildTitle(base)]
    IN  [titled EXCEPT !.searchable =
            buildSearchable(titled.text, titled.id, titled.searchTags, titled.title)]

\* Array.prototype.sort((a, b) => a.position - b.position): stable
RECURSIVE InsertByPosition(_, _)
InsertByPosition(sorted, e) ==
    IF sorted = <<>> THEN <<e>>
    ELSE IF sorted[Len(sorted)].position <= e.position THEN Append(sorted, e)
    ELSE Append(InsertByPosition(SubSeq(sorted, 1, Len(sorted) - 1), e), sorted[Len(sorted)])

RECURSIVE SortByPosition(_)
SortByPosition(es) ==
    IF es = <<>> THEN <<>>
    ELSE InsertByPosition(SortByPosition(SubSeq(es, 1, Len(es) - 1)), es[Len(es)])

\* whether normalize(data) throws
normalizeThrows(data) ==
    IF data.t # "array" THEN TRUE
    ELSE \E i \in 1..Len(data.v) :
            IF IsInvalidRecord(data.v[i]) THEN TRUE ELSE MissingRequired(data.v[i])

\* normalize(data), when it does not throw
normalize(data) == SortByPosition([i \in 1..Len(data.v) |-> normalizeEntry(data.v[i])])

---------------------------------------------------------------------------
(* build-content.mjs: escapeHtml, buildToc, buildContent, buildLlmMarkdown *)

EscapeChar(c) ==
    CASE c = "&" -> <<"&","a","m","p",";">>
      [] c = "<" -> <<"&","l","t",";">>
      [] c = ">" -> <<"&","g","t",";">>
      [] c = "\"" -> <<"&","q","u","o","t",";">>
      [] c = "'" -> <<"&","#","3","9",";">>
      [] OTHER -> <<c>>

RECURSIVE escapeHtml(_)
escapeHtml(s) == IF s = <<>> THEN <<>> ELSE EscapeChar(Head(s)) \o escapeHtml(Tail(s))

\* the numbers of a sequence of tagged numbers, ascending and without repeats
RECURSIVE SortedNumbers(_)
SortedNumbers(S) ==
    IF S = {} THEN <<>>
    ELSE LET m == CHOOSE x \in S : \A y \in S : x <= y
         IN  <<m>> \o SortedNumbers(S \ {m})

(* buildToc.  The <li> strings are modelled by records, one per item pushed  *)
(* to parts; "entries" is the argument array as the call leaves it.          *)
buildToc(es) ==
    LET articleNumbers == {es[i].article.v : i \in {j \in 1..Len(es) :
                               es[j].part = S_article /\ es[j].article # Null}}
        amendmentNumbers == {es[i].amendmentNumber.v : i \in {j \in 1..Len(es) :
                               es[j].part = S_amendment /\ es[j].amendmentNumber # Null}}
        hasPreamble == \E i \in 1..Len(es) : es[i].part = S_preamble
        arts == SortedNumbers(articleNumbers)
        amds == SortedNumbers(amendmentNumbers)
    IN  [html |->
            (IF hasPreamble THEN <<[href |-> "part-preamble"]>> ELSE <<>>)
            \o (IF arts # <<>>
                THEN <<[href |-> "part-articles"]>>
                     \o [i \in 1..Len(arts) |-> [href |-> "part-article", num |-> arts[i]]]
                ELSE <<>>)
            \o (IF amds # <<>>
                THEN <<[href |-> "part-amendments"]>>
                     \o [i \in 1..Len(amds) |-> [href |-> "part-amendment", num |-> amds[i]]]
                ELSE <<>>),
         entries |-> es]

\* the state of buildContent's loop
ContentInit ==
    [blocks |-> <<>>, hasPreambleHeading |-> FALSE, hasArticlePartHeading |-> FALSE,
     hasAmendmentPartHeading |-> FALSE, currentArticle |-> Null,
     currentAmendment |-> Null, blockOpen |-> FALSE]

closePartBlock(st) ==
    IF ~st.blockOpen THEN st
    ELSE [st EXCEPT !.blocks = Append(@, [kind |-> "close"]), !.blockOpen = FALSE]

S_partDash == <<"p","a","r","t","-">>

\* the id of a part heading: part-preamble, part-article-N, part-amendment-N
PartHeadingId(part, number) ==
    CASE part = "preamble" -> S_partDash \o S_preamble
      [] part = "article" -> S_partDash \o S_article \o <<"-">> \o JSString(number)
      [] part = "amendment" -> S_partDash \o S_amendment \o <<"-">> \o JSString(number)

\* attrs: the part and number of the part-block; the heading is the block that follows
openPartBlock(st, part, number) ==
    LET c == closePartBlock(st)
    IN  [c EXCEPT !.blocks = @ \o <<[kind |-> "open", part |-> part, number |-> number],
                                    [kind |-> "heading", id |-> PartHeadingId(part, number)]>>,
                  !.blockOpen = TRUE]

\* the major heading "Part: Articles" (part-articles) or "Part: Amendments" (part-amendments)
MajorHeading(st, part) ==
    LET c == closePartBlock(st)
    IN  [c EXCEPT !.blocks = Append(@, [kind |-> "major", id |-> S_partDash \o part])]

formatPartLabel(entry) ==
    IF entry.part = S_preamble THEN <<"P","r","e","a","m","b","l","e">>
    ELSE IF entry.part = S_article THEN <<"A","r","t","i","c","l","e">>
    ELSE <<"A","m","e","n","d","m","e","n","t">>

\* the rows of the details list: label and value
buildDetailRows(entry) ==
    LET Row(label, value) == <<[label |-> label, value |-> value]>>
        NumberRow(label, value) == IF value # Null THEN Row(label, JSString(value)) ELSE <<>>
        DateRow(label, value) == IF value # Null THEN Row(label, value.v) ELSE <<>>
    IN  Row(<<"P","a","r","t">>, formatPartLabel(entry))
        \o NumberRow(<<"A","r","t","i","c","l","e">>, entry.article)
        \o NumberRow(<<"A","m","e","n","d","m","e","n","t">>, entry.amendmentNumber)
        \o NumberRow(<<"S","e","c","t","i","o","n">>, entry.section)
        \o NumberRow(<<"C","l","a","u","s","e">>, entry.clause)
        \o NumberRow(<<"S","u","b","c","l","a","u","s","e">>, entry.subclause)
        \o (IF entry.searchTags # <<>>
            THEN Row(<<"S","e","a","r","c","h"," ","t","a","g","s">>, Join(entry.searchTags, <<","," ">>)) ELSE <<>>)
        \o DateRow(<<"R","a","t","i","f","i","e","d">>, entry.ratifiedOn)
        \o DateRow(<<"P","r","o","p","o","s","e","d">>, entry.proposedOn)
        \o DateRow(<<"E","f","f","e","c","t","i","v","e">>, entry.effectiveOn)
        \o DateRow(<<"R","e","p","e","a","l","e","d">>, entry.repealedOn)

\* the rows of buildDetailsHtml, label and value escaped
buildDetailsHtml(entry) ==
    LET rows == buildDetailRows(entry)
    IN  [i \in 1..Len(rows) |->
            [label |-> escapeHtml(rows[i].label), value |-> escapeHtml(rows[i].value)]]

\* the <article class="entry"> element of one entry
EntryBlock(entry) ==
    [kind |-> "entry",
     id |-> <<"e","n","t","r","y","-">> \o escapeHtml(entry.id),
     entryId |-> escapeHtml(entry.id),
     part |-> entry.part,
     article |-> IF entry.article = Null THEN <<>> ELSE JSString(entry.article),
     amendment |-> IF entry.amendmentNumber = Null THEN <<>> ELSE JSString(entry.amendmentNumber),
     repealed |-> IF entry.isRepealed THEN "true" ELSE "false",
     title |-> escapeHtml(entry.title),
     badge |-> entry.isRepealed,
     details |-> buildDetailsHtml(entry),
     text |-> escapeHtml(entry.text)]

\* one iteration of buildContent's for loop
ContentStep(st, entry) ==
    LET s1 == IF entry.part = S_preamble /\ ~st.hasPreambleHeading
              THEN openPartBlock([st EXCEPT !.hasPreambleHeading = TRUE], "preamble", Null)
              ELSE st
        s2 == IF entry.part = S_article /\ entry.article # s1.currentArticle
              THEN LET h == IF ~s1.hasArticlePartHeading
                            THEN [MajorHeading(s1, S_article \o <<"s">>) EXCEPT !.hasArticlePartHeading = TRUE]
                            ELSE s1
                   IN  openPartBlock([h EXCEPT !.currentArticle = entry.article],
                                     "article", entry.article)
              ELSE s1
        s3 == IF entry.part = S_amendment /\ entry.amendmentNumber # s2.currentAmendment
              THEN LET h == IF ~s2.hasAmendmentPartHeading
                            THEN [MajorHeading(s2, S_amendment \o <<"s">>) EXCEPT !.hasAmendmentPartHeading = TRUE]
                            ELSE s2
                   IN  openPartBlock([h EXCEPT !.currentAmendment = entry.amendmentNumber],
                                     "amendment", entry.amendmentNumber)
              ELSE s2
    IN  [s3 EXCEPT !.blocks = Append(@, EntryBlock(entry))]

RECURSIVE ContentLoop(_, _)
ContentLoop(st, es) == IF es = <<>> THEN st ELSE ContentLoop(ContentStep(st, Head(es)), Tail(es))

\* buildContent, were its loop to take the entries off the array with shift()
buildContentConsuming(es) ==
    [html |-> closePartBlock(ContentLoop(ContentInit, es)).blocks, entries |-> <<>>]

(* buildContent.  Each string pushed to blocks is modelled by a record (the *)
(* three lines of a heading by one record).                                  *)
buildContent(es) ==
    [html |-> closePartBlock(ContentLoop(ContentInit, es)).blocks, entries |-> es]

\* the lines buildLlmMarkdown pushes for one entry, after the group headers
LlmEntryLines(entry) ==
    <<[kind |-> "entry", id |-> entry.id, text |-> entry.text]>>
    \o (IF entry.isRepealed /\ entry.repealedOn # Null
        THEN <<[kind |-> "repealed", on |-> entry.repealedOn.v]>>
        ELSE <<>>)

LlmStep(st, entry) ==
    LET s1 == IF entry.part = S_preamble
              THEN [st EXCEPT !.lines = Append(@, [kind |-> "h2", part |-> "preamble"])]
              ELSE st
        s2 == IF entry.part = S_article /\ entry.article # s1.currentArticle
              THEN [s1 EXCEPT
                      !.lines = (IF ~s1.hasArticlesHeader
                                 THEN Append(@, [kind |-> "h2", part |-> "articles"]) ELSE @)
                                \o <<[kind |-> "h3", part |-> "article", number |-> entry.article]>>,
                      !.hasArticlesHeader = TRUE,
                      !.currentArticle = entry.article]
              ELSE s1
        s3 == IF entry.part = S_amendment /\ entry.amendmentNumber # s2.currentAmendment
              THEN [s2 EXCEPT
                      !.lines = (IF ~s2.hasAmendmentsHeader
                                 THEN Append(@, [kind |-> "h2", part |-> "amendments"]) ELSE @)
                                \o <<[kind |-> "h3", part |-> "amendment",
                                      number |-> entry.amendmentNumber]>>,
                      !.hasAmendmentsHeader = TRUE,
                      !.currentAmendment = entry.amendmentNumber]
              ELSE s2
    IN  [s3 EXCEPT !.lines = @ \o LlmEntryLines(entry)]

RECURSIVE LlmLoop(_, _)
LlmLoop(st, es) == IF es = <<>> THEN st ELSE LlmLoop(LlmStep(st, Head(es)), Tail(es))

\* buildLlmMarkdown: the heading and entry lines, without the fixed preface
buildLlmMarkdown(es) ==
    [html |-> LlmLoop([lines |-> <<>>, hasArticlesHeader |-> FALSE,
                       hasAmendmentsHeader |-> FALSE, currentArticle |-> Null,
                       currentAmendment |-> Null], es).lines,
     entries |-> es]

\* main's projection of one entry into the search index
IndexRecord(entry) ==
    [id |-> entry.id, part |-> entry.part, type |-> entry.type, article |-> entry.article,
     section |-> entry.section, clause |-> entry.clause, subclause |-> entry.subclause,
     amendmentNumber |-> entry.amendmentNumber, isRepealed |-> entry.isRepealed,
     searchable |-> entry.searchable]

\* the projection, were it to leave the repealed entries out of the index
projectSearchIndexOfActive(es) ==
    LET IsActive(entry) == ~entry.isRepealed
    IN  [html |-> [i \in 1..Len(SelectSeq(es, IsActive)) |->
                        IndexRecord(SelectSeq(es, IsActive)[i])],
         entries |-> es]

\* entries.map(...) in main
projectSearchIndex(es) == [html |-> [i \in 1..Len(es) |-> IndexRecord(es[i])], entries |-> es]

---------------------------------------------------------------------------
(* build-content.mjs: injectGenerated *)

(* A marker is modelled as one symbol of the page: the four markers are HTML *)
(* comments, "<" occurs in each only as its first character, so occurrences  *)
(* cannot overlap; escapeRegex makes the pattern match them literally.       *)
tocStart == <<"<!-- GENERATED_TOC_START -->">>
tocEnd == <<"<!-- GENERATED_TOC_END -->">>
contentStart == <<"<!-- GENERATED_CONTENT_START -->">>
contentEnd == <<"<!-- GENERATED_CONTENT_END -->">>

\* the least i >= from at which s has t, or 0
FirstIndex(s, t, from) ==
    IF \E i \in from..(Len(s) + 1) : HasAt(s, t, i)
    THEN CHOOSE i \in from..(Len(s) + 1) :
            HasAt(s, t, i) /\ \A j \in from..(i - 1) : ~HasAt(s, t, j)
    ELSE 0

(* The first match of start[\s\S]*?end in s: [from, to], the positions of its *)
(* first and last symbol, or from = 0 when the pattern does not match.        *)
PatternMatch(s, start, end) ==
    LET from == FirstIndex(s, start, 1)
        e == IF from = 0 THEN 0 ELSE FirstIndex(s, end, from + Len(start))
    IN  IF from = 0 \/ e = 0 THEN [from |-> 0, to |-> 0]
        ELSE [from |-> from, to |-> e + Len(end) - 1]

(* GetSubstitution of String.prototype.replace for a pattern without capture *)
(* groups: $$ is "$", $& the match, $` the text before it, $' the text after *)
(* it; any other "$" stands for itself.                                       *)
RECURSIVE GetSubstitution(_, _, _, _)
GetSubstitution(template, matched, before, after) ==
    IF template = <<>> THEN <<>>
    ELSE IF template[1] = "$" /\ Len(template) >= 2 /\ template[2] \in {"$", "&", "`", "'"}
    THEN (CASE template[2] = "$" -> <<"$">>
            [] template[2] = "&" -> matched
            [] template[2] = "`" -> before
            [] template[2] = "'" -> after)
         \o GetSubstitution(SubSeq(template, 3, Len(template)), matched, before, after)
    ELSE <<template[1]>> \o GetSubstitution(Tail(template), matched, before, after)

\* the replacement string of injectGenerated
InjectReplacement(startMarker, endMarker, content) ==
    startMarker \o <<"\n">> \o content \o <<"\n">> \o endMarker

\* whether injectGenerated throws "Missing marker pair"
injectThrows(sourceHtml, startMarker, endMarker) ==
    PatternMatch(sourceHtml, startMarker, endMarker).from = 0

\* injectGenerated's return value, when it does not throw
injectGenerated(sourceHtml, startMarker, endMarker, content) ==
    LET m == PatternMatch(sourceHtml, startMarker, endMarker)
        before == SubSeq(sourceHtml, 1, m.from - 1)
        matched == SubSeq(sourceHtml, m.from, m.to)
        after == SubSeq(sourceHtml, m.to + 1, Len(sourceHtml))
    IN  before
        \o GetSubstitution(InjectReplacement(startMarker, endMarker, content),
                           matched, before, after)
        \o after

---------------------------------------------------------------------------
(* The inputs of the build: records of constitution.json *)

SeqsUpTo(S, n) == UNION {[1..k -> S] : k \in 0..n}

RawRecord(id, type, text, searchTags, position, article, section, repealedOn) ==
    [t |-> "object", id |-> id, type |-> type, text |-> text, searchTags |-> searchTags,
     position |-> position, article |-> article, section |-> section, clause |-> Undef,
     subclause |-> Undef, ratifiedOn |-> Undef, effectiveOn |-> Undef,
     proposedOn |-> Undef, repealedOn |-> repealedOn]

S_section == <<"s","e","c","t","i","o","n">>

RecPreamble ==
    RawRecord(Str(<<"p","r","e">>), Str(S_preamble), Str(<<"W","e"," ","d","o">>), Undef,
              Num(1), Undef, Undef, Undef)

RecArticle1 ==
    RawRecord(Str(<<"a","1","s","1">>), Str(S_section), Str(<<"A","l","l"," ","B","e">>),
              Arr(<<Str(<<"L","a","w">>), Num(7)>>), Num(2), Num(1), Num(1), Undef)

\* its position is the string "3"
RecArticle1b ==
    RawRecord(Str(<<"a","1","s","2">>), Str(S_section), Str(<<"N","o"," ","w","e">>), Arr(<<>>),
              Str(<<"3">>), Num(1), Num(2), Null)

RecAmendment18 ==
    RawRecord(Str(<<"a","m","e","n","d","1","8","-","1">>), Str(S_amendment),
              Str(<<"D","r","y">>), Arr(<<Str(<<"b","a","n">>)>>), Num(4), Undef, Num(1),
              Str(<<"1","9","3","3">>))

RecAmendment21 ==
    RawRecord(Str(<<"a","m","e","n","d","2","1","-","1">>), Str(S_amendment),
              Str(<<"W","e","t">>), Undef, Num(5), Undef, Num(1), Null)

\* an empty repeal date, and the position of RecAmendment21
RecEmptyRepeal ==
    RawRecord(Str(<<"a","2","s","1">>), Str(S_section), Str(<<"A","n","d">>), Undef,
              Num(5), Num(2), Num(1), Str(<<>>))

\* the id of RecArticle1, and a repeal date that is a number
RecSameId ==
    RawRecord(Str(<<"a","1","s","1">>), Str(S_section), Str(<<"B","i","s">>), Undef,
              Num(6), Num(1), Num(1), Num(1933))

\* no text
RecNoText ==
    RawRecord(Str(<<"a","3","s","1">>), Str(S_section), Undef, Undef,
              Num(7), Num(3), Num(1), Undef)

\* its position is null
RecNullPosition ==
    RawRecord(Str(<<"a","4","s","1">>), Str(S_section), Str(<<"Y","e","s">>), Undef,
              Null, Num(4), Num(1), Undef)

RawRecords ==
    {RecPreamble, RecArticle1, RecArticle1b, RecAmendment18, RecAmendment21,
     RecEmptyRepeal, RecSameId, RecNoText, RecNullPosition, Null}

\* what JSON.parse may return for constitution.json: an array of distinct records, or no array
RawInputs ==
    {Arr(s) : s \in {q \in SeqsUpTo(RawRecords, MaxRecords) :
                        \A i, j \in 1..Len(q) : i # j => q[i] # q[j]}}
    \cup {[t |-> "object"]}

(* index.html as main reads it: the two marker pairs around earlier generated *)
(* text, or a page that has lost the end marker of its content.               *)
PageTemplates ==
    {<<"x">> \o tocStart \o <<"o">> \o tocEnd \o <<"x">> \o contentStart \o contentEnd,
     tocStart \o tocEnd \o <<"x">> \o contentStart \o <<"o">>}

\* the text of generated HTML in the page, one symbol per item
Rendered(items) == [i \in 1..Len(items) |-> "g"]

---------------------------------------------------------------------------
(* build-content.mjs: main *)

BuildInit ==
    /\ rawData \in RawInputs
    /\ indexHtml \in PageTemplates
    /\ entries = <<>>
    /\ buildPc = "parsed"
    /\ tocHtml = <<>>
    /\ contentHtml = <<>>
    /\ searchIndexOut = <<>>
    /\ llmMd = <<>>
    /\ written = <<>>

BuildIdle ==
    /\ rawData = Arr(<<>>)
    /\ indexHtml = <<>>
    /\ entries = <<>>
    /\ buildPc = "idle"
    /\ tocHtml = <<>>
    /\ contentHtml = <<>>
    /\ searchIndexOut = <<>>
    /\ llmMd = <<>>
    /\ written = <<>>

\* const entries = normalize(data)
Normalize ==
    /\ buildPc = "parsed"
    /\ ~normalizeThrows(rawData)
    /\ entries' = normalize(rawData)
    /\ buildPc' = "normalized"
    /\ UNCHANGED <<rawData, tocHtml, contentHtml, searchIndexOut, llmMd, written, indexHtml>>
    /\ UNCHANGED <<injectVars, clientVars, swVars, viewVars, drawerVars>>

\* normalize throws; main's catch sets the exit code
NormalizeFails ==
    /\ buildPc = "parsed"
    /\ normalizeThrows(rawData)
    /\ buildPc' = "failed"
    /\ UNCHANGED <<rawData, entries, tocHtml, contentHtml, searchIndexOut, llmMd, written,
                   indexHtml>>
    /\ UNCHANGED <<injectVars, clientVars, swVars, viewVars, drawerVars>>

\* const tocHtml = buildToc(entries)
BuildToc ==
    /\ buildPc = "normalized"
    /\ tocHtml' = buildToc(entries).html
    /\ entries' = buildToc(entries).entries
    /\ buildPc' = "toc"
    /\ UNCHANGED <<rawData, contentHtml, searchIndexOut, llmMd, written, indexHtml>>
    /\ UNCHANGED <<injectVars, clientVars, swVars, viewVars, drawerVars>>

\* const contentHtml = buildContent(entries)
BuildContent ==
    /\ buildPc = "toc"
    /\ contentHtml' = buildContent(entries).html
    /\ entries' = buildContent(entries).entries
    /\ buildPc' = "content"
    /\ UNCHANGED <<rawData, tocHtml, searchIndexOut, llmMd, written, indexHtml>>
    /\ UNCHANGED <<injectVars, clientVars, swVars, viewVars, drawerVars>>

\* writeFile(prerenderPath, contentHtml)
WritePrerender ==
    /\ buildPc = "content"
    /\ written' = Append(written, "constitution-prerender.html")
    /\ buildPc' = "prerender"
    /\ UNCHANGED <<rawData, entries, tocHtml, contentHtml, searchIndexOut, llmMd, indexHtml>>
    /\ UNCHANGED <<injectVars, clientVars, swVars, viewVars, drawerVars>>

\* the projection of entries and writeFile(searchIndexPath, ...)
WriteSearchIndex ==
    /\ buildPc = "prerender"
    /\ searchIndexOut' = projectSearchIndex(entries).html
    /\ entries' = projectSearchIndex(entries).entries
    /\ written' = Append(written, "search-index.json")
    /\ buildPc' = "index"
    /\ UNCHANGED <<rawData, tocHtml, contentHtml, llmMd, indexHtml>>
    /\ UNCHANGED <<injectVars, clientVars, swVars, viewVars, drawerVars>>

\* writeFile(llmPath, buildLlmMarkdown(entries))
WriteLlm ==
    /\ buildPc = "index"
    /\ llmMd' = buildLlmMarkdown(entries).html
    /\ entries' = buildLlmMarkdown(entries).entries
    /\ written' = Append(written, "llm.md")
    /\ buildPc' = "llm"
    /\ UNCHANGED <<rawData, tocHtml, contentHtml, searchIndexOut, indexHtml>>
    /\ UNCHANGED <<injectVars, clientVars, swVars, viewVars, drawerVars>>

\* whether one of main's two calls of injectGenerated throws
PageInjectThrows ==
    IF injectThrows(indexHtml, tocStart, tocEnd) THEN TRUE
    ELSE injectThrows(injectGenerated(indexHtml, tocStart, tocEnd, Rendered(tocHtml)),
                      contentStart, contentEnd)

\* the two calls of injectGenerated and writeFile(indexPath, withContent)
InjectAndWrite ==
    /\ buildPc = "llm"
    /\ ~PageInjectThrows
    /\ indexHtml' = injectGenerated(
                        injectGenerated(indexHtml, tocStart, tocEnd, Rendered(tocHtml)),
                        contentStart, contentEnd, Rendered(contentHtml))
    /\ written' = Append(written, "index.html")
    /\ buildPc' = "done"
    /\ UNCHANGED <<rawData, entries, tocHtml, contentHtml, searchIndexOut, llmMd>>
    /\ UNCHANGED <<injectVars, clientVars, swVars, viewVars, drawerVars>>

\* a marker pair is missing: main's catch sets the exit code
InjectFails ==
    /\ buildPc = "llm"
    /\ PageInjectThrows
    /\ buildPc' = "failed"
    /\ UNCHANGED <<rawData, entries, tocHtml, contentHtml, searchIndexOut, llmMd, written,
                   indexHtml>>
    /\ UNCHANGED <<injectVars, clientVars, swVars, viewVars, drawerVars>>

BuildNext ==
    \/ Normalize
    \/ NormalizeFails
    \/ BuildToc
    \/ BuildContent
    \/ WritePrerender
    \/ WriteSearchIndex
    \/ WriteLlm
    \/ InjectAndWrite
    \/ InjectFails

---------------------------------------------------------------------------
(* injectGenerated on arbitrary pages and contents *)

InjectMarkerPairs == {[start |-> tocStart, end |-> tocEnd],
                      [start |-> contentStart, end |-> contentEnd]}

InjectInit ==
    /\ injMarkers \in InjectMarkerPairs
    /\ injSource \in SeqsUpTo({injMarkers.start[1], injMarkers.end[1], "x"}, MaxSourceLen)
    /\ injContent \in SeqsUpTo({"x", "$", "&", injMarkers.end[1]}, MaxContentLen)
    /\ injResult = <<>>
    /\ injPc = "ready"

InjectIdle ==
    /\ injMarkers = [start |-> tocStart, end |-> tocEnd]
    /\ injSource = <<>>
    /\ injContent = <<>>
    /\ injResult = <<>>
    /\ injPc = "idle"

\* injectGenerated(injSource, start, end, injContent) returns
InjectCall ==
    /\ injPc = "ready"
    /\ ~injectThrows(injSource, injMarkers.start, injMarkers.end)
    /\ injResult' = injectGenerated(injSource, injMarkers.start, injMarkers.end, injContent)
    /\ injPc' = "once"
    /\ UNCHANGED <<injSource, injMarkers, injContent>>
    /\ UNCHANGED <<buildVars, clientVars, swVars, viewVars, drawerVars>>

\* injectGenerated(injSource, start, end, injContent) throws
InjectCallThrows ==
    /\ injPc = "ready"
    /\ injectThrows(injSource, injMarkers.start, injMarkers.end)
    /\ injPc' = "thrown"
    /\ UNCHANGED <<injSource, injMarkers, injContent, injResult>>
    /\ UNCHANGED <<buildVars, clientVars, swVars, viewVars, drawerVars>>

(* The next build: injectGenerated on the page the first call returned.  That *)
(* page holds the replacement, which begins with the start marker and ends   *)
(* with the end marker, so this call finds a marker pair.                     *)
InjectAgain ==
    /\ injPc = "once"
    /\ ~injectThrows(injResult, injMarkers.start, injMarkers.end)
    /\ injResult' = injectGenerated(injResult, injMarkers.start, injMarkers.end, injContent)
    /\ injPc' = "twice"
    /\ UNCHANGED <<injSource, injMarkers, injContent>>
    /\ UNCHANGED <<buildVars, clientVars, swVars, viewVars, drawerVars>>

InjectNext ==
    \/ InjectCall
    \/ InjectCallThrows
    \/ InjectAgain

---------------------------------------------------------------------------
(* src/app.js: the filter state, its URL form and the filter itself *)

S_all == <<"a","l","l">>
S_active == <<"a","c","t","i","v","e">>
S_repealed == <<"r","e","p","e","a","l","e","d">>
S_q == <<"q">>
S_part == <<"p","a","r","t">>
S_status == <<"s","t","a","t","u","s">>

DEFAULTS ==
    [q |-> <<>>, part |-> S_all, article |-> S_all, amendment |-> S_all, status |-> S_all]

\* sanitizeState without the test of the status
sanitizeStateAnyStatus(raw, articleValues, amendmentValues) ==
    [q |-> Trim(raw.q),
     part |-> IF raw.part \in {S_all, S_preamble, S_article, S_amendment}
              THEN raw.part ELSE DEFAULTS.part,
     article |-> IF raw.article \in articleValues THEN raw.article ELSE DEFAULTS.article,
     amendment |-> IF raw.amendment \in amendmentValues
                   THEN raw.amendment ELSE DEFAULTS.amendment,
     status |-> raw.status]

sanitizeState(raw, articleValues, amendmentValues) ==
    [q |-> Trim(raw.q),
     part |-> IF raw.part \in {S_all, S_preamble, S_article, S_amendment}
              THEN raw.part ELSE DEFAULTS.part,
     article |-> IF raw.article \in articleValues THEN raw.article ELSE DEFAULTS.article,
     amendment |-> IF raw.amendment \in amendmentValues
                   THEN raw.amendment ELSE DEFAULTS.amendment,
     status |-> IF raw.status \in {S_all, S_active, S_repealed}
                THEN raw.status ELSE DEFAULTS.status]

\* s.split(sep) for a one-character separator
RECURSIVE Split(_, _)
Split(s, sep) ==
    IF \E i \in 1..Len(s) : s[i] = sep
    THEN LET i == CHOOSE k \in 1..Len(s) : s[k] = sep /\ \A j \in 1..(k - 1) : s[j] # sep
         IN  <<SubSeq(s, 1, i - 1)>> \o Split(SubSeq(s, i + 1, Len(s)), sep)
    ELSE <<s>>

(* The percent escapes of the characters of the model that the              *)
(* application/x-www-form-urlencoded serializer escapes, and %41 for "A"    *)
PercentCodes ==
    {<<"+", "2", "B">>, <<"&", "2", "6">>, <<"=", "3", "D">>, <<"%", "2", "5">>,
     <<"#", "2", "3">>, <<"?", "3", "F">>, <<" ", "2", "0">>, <<"\n", "0", "A">>,
     <<"\t", "0", "9">>, <<"A", "4", "1">>}

\* left as it is by the serializer: ASCII alphanumerics and * - . _
IsUrlSafe(c) ==
    \/ IsDigit(c)
    \/ \E i \in 1..26 : UpperLetters[i] = c \/ LowerLetters[i] = c
    \/ c \in {"*", "-", ".", "_"}

\* EncodeChar, were "+" left as it is
EncodeCharPlusUnescaped(c) ==
    IF IsUrlSafe(c) \/ c = "+" THEN <<c>>
    ELSE IF c = " " THEN <<"+">>
    ELSE LET code == CHOOSE t \in PercentCodes : t[1] = c
         IN  <<"%", code[2], code[3]>>

EncodeChar(c) ==
    IF IsUrlSafe(c) THEN <<c>>
    ELSE IF c = " " THEN <<"+">>
    ELSE LET code == CHOOSE t \in PercentCodes : t[1] = c
         IN  <<"%", code[2], code[3]>>

\* the serializer's byte serialization of a name or value
RECURSIVE FormEncode(_)
FormEncode(s) == IF s = <<>> THEN <<>> ELSE EncodeChar(Head(s)) \o FormEncode(Tail(s))

\* the parser's decoding of a name or value: "+" is a space, %XX a byte
RECURSIVE FormDecode(_)
FormDecode(s) ==
    IF s = <<>> THEN <<>>
    ELSE IF s[1] = "+" THEN <<" ">> \o FormDecode(Tail(s))
    ELSE IF s[1] = "%" /\ Len(s) >= 3
            /\ \E t \in PercentCodes : t[2] = s[2] /\ t[3] = s[3]
    THEN <<(CHOOSE t \in PercentCodes : t[2] = s[2] /\ t[3] = s[3])[1]>>
         \o FormDecode(SubSeq(s, 4, Len(s)))
    ELSE <<s[1]>> \o FormDecode(Tail(s))

\* one name=value segment of a query, parsed
ParsePair(segment) ==
    IF \E i \in 1..Len(segment) : segment[i] = "="
    THEN LET i == CHOOSE k \in 1..Len(segment) :
                    segment[k] = "=" /\ \A j \in 1..(k - 1) : segment[j] # "="
         IN  [name |-> FormDecode(SubSeq(segment, 1, i - 1)),
              value |-> FormDecode(SubSeq(segment, i + 1, Len(segment)))]
    ELSE [name |-> FormDecode(segment), value |-> <<>>]

\* new URLSearchParams(window.location.search): the list of name-value pairs
URLSearchParams(search) ==
    LET query == IF search # <<>> /\ search[1] = "?" THEN Tail(search) ELSE search
        NonEmpty(seg) == seg # <<>>
        segments == SelectSeq(Split(query, "&"), NonEmpty)
    IN  [i \in 1..Len(segments) |-> ParsePair(segments[i])]

\* params.get(name) || fallback
ParamOr(params, name, fallback) ==
    IF \E i \in 1..Len(params) : params[i].name = name
    THEN LET i == CHOOSE k \in 1..Len(params) :
                    params[k].name = name /\ \A j \in 1..(k - 1) : params[j].name # name
         IN  IF params[i].value = <<>> THEN fallback ELSE params[i].value
    ELSE fallback

getStateFromParams(search, articleValues, amendmentValues) ==
    LET params == URLSearchParams(search)
    IN  sanitizeState(
            [q |-> ParamOr(params, S_q, <<>>),
             part |-> ParamOr(params, S_part, DEFAULTS.part),
             article |-> ParamOr(params, S_article, DEFAULTS.article),
             amendment |-> ParamOr(params, S_amendment, DEFAULTS.amendment),
             status |-> ParamOr(params, S_status, DEFAULTS.status)],
            articleValues, amendmentValues)

\* the pairs of writeStateToUrl, were the part written whatever its value
StateParamsAlwaysPart(state) ==
    (IF state.q # <<>> THEN <<[name |-> S_q, value |-> state.q]>> ELSE <<>>)
    \o <<[name |-> S_part, value |-> state.part]>>
    \o (IF state.article # S_all
        THEN <<[name |-> S_article, value |-> state.article]>> ELSE <<>>)
    \o (IF state.amendment # S_all
        THEN <<[name |-> S_amendment, value |-> state.amendment]>> ELSE <<>>)
    \o (IF state.status # S_all THEN <<[name |-> S_status, value |-> state.status]>> ELSE <<>>)

\* the pairs writeStateToUrl sets, in order
StateParams(state) ==
    (IF state.q # <<>> THEN <<[name |-> S_q, value |-> state.q]>> ELSE <<>>)
    \o (IF state.part # S_all THEN <<[name |-> S_part, value |-> state.part]>> ELSE <<>>)
    \o (IF state.article # S_all
        THEN <<[name |-> S_article, value |-> state.article]>> ELSE <<>>)
    \o (IF state.amendment # S_all
        THEN <<[name |-> S_amendment, value |-> state.amendment]>> ELSE <<>>)
    \o (IF state.status # S_all THEN <<[name |-> S_status, value |-> state.status]>> ELSE <<>>)

\* params.toString()
ParamsToString(params) ==
    Join([i \in 1..Len(params) |->
            FormEncode(params[i].name) \o <<"=">> \o FormEncode(params[i].value)], <<"&">>)

\* writeStateToUrl: window.location.search after history.replaceState
writeStateToUrl(state) ==
    LET query == ParamsToString(StateParams(state))
    IN  IF query # <<>> THEN <<"?">> \o query ELSE <<>>

\* Number(value) for a string: digits, digits followed by ".5", or NaN
NumberOfString(value) ==
    LET s == Trim(value)
    IN  IF AllDigits(s) THEN Num(DigitsToNum(s))
        ELSE IF Len(s) >= 3 /\ SubSeq(s, Len(s) - 1, Len(s)) = <<".","5">>
                /\ AllDigits(SubSeq(s, 1, Len(s) - 2))
        THEN Half(DigitsToNum(SubSeq(s, 1, Len(s) - 2)))
        ELSE [t |-> "number", nan |-> TRUE]

\* Number(value) === entry field, for a select's value
NumberIs(field, value) == field = NumberOfString(value)

\* the text criterion of matchesEntry
matchesText(entry, state) ==
    state.q = <<>> \/ Includes(entry.searchable, ToLowerCase(state.q))

\* matchesEntry without its check of the status "repealed"
matchesEntryStatusSlip(entry, state) ==
    /\ state.part = S_all \/ entry.part = state.part
    /\ state.article = S_all \/ NumberIs(entry.article, state.article)
    /\ state.amendment = S_all \/ NumberIs(entry.amendmentNumber, state.amendment)
    /\ ~(state.status = S_active /\ entry.isRepealed)
    /\ matchesText(entry, state)

matchesEntry(entry, state) ==
    /\ state.part = S_all \/ entry.part = state.part
    /\ state.article = S_all \/ NumberIs(entry.article, state.article)
    /\ state.amendment = S_all \/ NumberIs(entry.amendmentNumber, state.amendment)
    /\ ~(state.status = S_active /\ entry.isRepealed)
    /\ ~(state.status = S_repealed /\ ~entry.isRepealed)
    /\ matchesText(entry, state)

\* buildActiveFilterSummary: the parts joined by " | ", or none for "No active filters."
buildActiveFilterSummary(state) ==
    (IF state.q # <<>> THEN <<[label |-> "Search", value |-> state.q]>> ELSE <<>>)
    \o (IF state.part # S_all THEN <<[label |-> "Part", value |-> state.part]>> ELSE <<>>)
    \o (IF state.article # S_all THEN <<[label |-> "Article", value |-> state.article]>> ELSE <<>>)
    \o (IF state.amendment # S_all
        THEN <<[label |-> "Amendment", value |-> state.amendment]>> ELSE <<>>)
    \o (IF state.status # S_all THEN <<[label |-> "Status", value |-> state.status]>> ELSE <<>>)

\* /^prefix(\d+)$/ on a heading id: the number, or Null when it does not match
HeadingNumber(headingId, prefix) ==
    LET rest == SubSeq(headingId, Len(prefix) + 1, Len(headingId))
    IN  IF HasAt(headingId, prefix, 1) /\ rest # <<>> /\ AllDigits(rest)
        THEN Num(DigitsToNum(rest)) ELSE Null

S_partArticleDash == <<"p","a","r","t","-","a","r","t","i","c","l","e","-">>
S_partAmendmentDash == <<"p","a","r","t","-","a","m","e","n","d","m","e","n","t","-">>

\* headingHasVisibleEntries without the two tests of the numbered headings
headingHasVisibleEntriesOfPart(headingId, visibleEntries) ==
    LET some(P(_)) == \E i \in 1..Len(visibleEntries) : P(visibleEntries[i])
        IsPreamble(e) == e.part = S_preamble
        IsArticle(e) == e.part = S_article
        IsAmendment(e) == e.part = S_amendment
    IN  IF headingId = S_partDash \o S_preamble THEN some(IsPreamble)
        ELSE IF headingId = S_partDash \o S_article \o <<"s">> THEN some(IsArticle)
        ELSE IF headingId = S_partDash \o S_amendment \o <<"s">> THEN some(IsAmendment)
        ELSE TRUE

headingHasVisibleEntries(headingId, visibleEntries) ==
    LET some(P(_)) == \E i \in 1..Len(visibleEntries) : P(visibleEntries[i])
        IsPreamble(e) == e.part = S_preamble
        IsArticle(e) == e.part = S_article
        IsAmendment(e) == e.part = S_amendment
        InArticle(e) == e.part = S_article
                        /\ e.article = HeadingNumber(headingId, S_partArticleDash)
        InAmendment(e) == e.part = S_amendment
                          /\ e.amendmentNumber = HeadingNumber(headingId, S_partAmendmentDash)
    IN  IF headingId = S_partDash \o S_preamble THEN some(IsPreamble)
        ELSE IF headingId = S_partDash \o S_article \o <<"s">> THEN some(IsArticle)
        ELSE IF headingId = S_partDash \o S_amendment \o <<"s">> THEN some(IsAmendment)
        ELSE IF HeadingNumber(headingId, S_partArticleDash) # Null THEN some(InArticle)
        ELSE IF HeadingNumber(headingId, S_partAmendmentDash) # Null THEN some(InAmendment)
        ELSE TRUE

---------------------------------------------------------------------------
(* src/app.js: the page and initialize *)

\* the HTML parser's decoding of an attribute value or text: it undoes escapeHtml
HtmlEntities ==
    {[text |-> <<"&","a","m","p",";">>, char |-> "&"], [text |-> <<"&","l","t",";">>, char |-> "<"],
     [text |-> <<"&","g","t",";">>, char |-> ">"], [text |-> <<"&","q","u","o","t",";">>, char |-> "\""],
     [text |-> <<"&","#","3","9",";">>, char |-> "'"]}

RECURSIVE HtmlDecode(_)
HtmlDecode(s) ==
    IF s = <<>> THEN <<>>
    ELSE IF \E e \in HtmlEntities : HasAt(s, e.text, 1)
    THEN LET e == CHOOSE x \in HtmlEntities : HasAt(s, x.text, 1)
         IN  <<e.char>> \o HtmlDecode(SubSeq(s, Len(e.text) + 1, Len(s)))
    ELSE <<s[1]>> \o HtmlDecode(Tail(s))

(* element.textContent of an entry element: the text nodes of the lines      *)
(* buildContent and buildDetailsHtml wrote, with the line breaks and the      *)
(* indentation between the tags; <br> is no text                              *)
TextContent(block) ==
    LET NotBreak(c) == c # "\n"
        rows == [i \in 1..Len(block.details) |->
                    <<" "," "," "," "," "," ">> \o HtmlDecode(block.details[i].label)
                    \o HtmlDecode(block.details[i].value)]
    IN  <<"\n"," "," ","\n"," "," "," "," ">> \o HtmlDecode(block.title)
        \o (IF block.badge THEN <<"R","e","p","e","a","l","e","d">> ELSE <<>>)
        \o <<"\n"," "," ","\n"," "," "," "," ","i","\n"," "," "," "," ","\n"," "," "," "," "," "," ","L","i","n","k","C","o","p","y"," ","l","i","n","k"," ","O","p","e","n","\n">>
        \o Join(rows, <<"\n">>)
        \o <<"\n"," "," "," "," ","\n"," "," ","\n"," "," ","\n"," "," ">>
        \o SelectSeq(HtmlDecode(block.text), NotBreak)
        \o <<"\n">>

\* document.querySelectorAll(".entry[data-entry-id]") on the page made of blocks
EntryElements(blocks) ==
    LET IsEntry(b) == b.kind = "entry"
        es == SelectSeq(blocks, IsEntry)
    IN  [i \in 1..Len(es) |->
            [entryId |-> HtmlDecode(es[i].entryId), part |-> es[i].part,
             article |-> es[i].article, amendment |-> es[i].amendment,
             repealed |-> es[i].repealed, textContent |-> TextContent(es[i])]]

\* toInt, for the value of a data attribute
toInt(value) ==
    IF value = <<>> THEN Null
    ELSE IF IsInteger(NumberOfString(value)) THEN NumberOfString(value)
    ELSE Null

\* makeFallbackIndex: the index read off the entry elements
makeFallbackIndex(entryElements) ==
    [i \in 1..Len(entryElements) |->
        LET element == entryElements[i]
            part == IF element.part # <<>> THEN element.part ELSE S_article
        IN  [id |-> element.entryId,
             part |-> part,
             type |-> part,
             article |-> toInt(element.article),
             section |-> Null,
             clause |-> Null,
             subclause |-> Null,
             amendmentNumber |-> toInt(element.amendment),
             isRepealed |-> element.repealed = "true",
             searchable |-> ToLowerCase(element.textContent)]]

\* the ids of document.querySelectorAll(".major-part-heading, .part-heading")
SectionHeadings(blocks) ==
    LET IsHeading(b) == b.kind \in {"heading", "major"}
        hs == SelectSeq(blocks, IsHeading)
    IN  [i \in 1..Len(hs) |-> hs[i].id]

\* new Map(searchIndex.map((entry) => [entry.id, entry])).has(id)
IndexHas(searchIndex, id) == \E i \in 1..Len(searchIndex) : searchIndex[i].id = id

\* indexById.get(id): of the records with this id, the last
IndexGet(searchIndex, id) ==
    searchIndex[CHOOSE i \in 1..Len(searchIndex) :
                    searchIndex[i].id = id
                    /\ \A j \in (i + 1)..Len(searchIndex) : searchIndex[j].id # id]

\* the values of the article select: "all" and String(entry.article) of the index
ArticleValues(searchIndex) ==
    {S_all} \cup {JSString(searchIndex[i].article) :
                    i \in {j \in 1..Len(searchIndex) : searchIndex[j].article.t = "number"}}

AmendmentValues(searchIndex) ==
    {S_all} \cup {JSString(searchIndex[i].amendmentNumber) :
                    i \in {j \in 1..Len(searchIndex) :
                            searchIndex[j].amendmentNumber.t = "number"}}

\* the state apply computes from the values of the controls
applyState(controlValues, searchIndex) ==
    sanitizeState(
        [q |-> controlValues.search, part |-> controlValues.part,
         article |-> controlValues.article, amendment |-> controlValues.amendment,
         status |-> controlValues.status],
        ArticleValues(searchIndex), AmendmentValues(searchIndex))

\* apply's loop over entryElements: per element, whether it is left visible
visibleFlags(state, searchIndex, elements) ==
    [i \in 1..Len(elements) |->
        IF IndexHas(searchIndex, elements[i].entryId)
        THEN matchesEntry(IndexGet(searchIndex, elements[i].entryId), state)
        ELSE FALSE]

\* visibleEntries: the index records of the visible elements, in page order
visibleEntriesOf(visible, searchIndex, elements) ==
    LET IsVisible(i) == visible[i]
        visibleIdx == SelectSeq([i \in 1..Len(elements) |-> i], IsVisible)
    IN  [k \in 1..Len(visibleIdx) |-> IndexGet(searchIndex, elements[visibleIdx[k]].entryId)]

\* aria-hidden is set for an element with a record and left alone for one without
ariaHiddenAfter(visible, searchIndex, elements, ariaBefore) ==
    [i \in 1..Len(elements) |->
        IF IndexHas(searchIndex, elements[i].entryId)
        THEN (IF visible[i] THEN "false" ELSE "true")
        ELSE ariaBefore[i]]

\* an id with characters that escapeHtml escapes
RecEscapedId ==
    RawRecord(Str(<<"a","<","&","3">>), Str(S_section), Str(<<"I","t">>), Undef,
              Num(7), Num(3), Num(1), Undef)

\* the page and the index come from builds of these inputs
ClientDatasets ==
    {<<RecPreamble, RecArticle1, RecArticle1b, RecAmendment18, RecAmendment21>>,
     <<RecEmptyRepeal, RecAmendment18, RecSameId, RecArticle1, RecEscapedId>>}

\* the page as the browser loads it: its query string
InitialSearches ==
    {<<>>,
     <<"?","q","=","W","e","+","d","o">>,
     <<"?","p","a","r","t","=","a","r","t","i","c","l","e","&","s","t","a","t","u","s","=","r","e","p","e","a","l","e","d">>,
     <<"?","a","r","t","i","c","l","e","=","1","&","a","m","e","n","d","m","e","n","t","=","1","8">>,
     <<"?","p","a","r","t","=","b","o","g","u","s","&","a","r","t","i","c","l","e","=","9","&","q","=","+","W","+","&","s","t","a","t","u","s","=">>,
     <<"?","q","=","%","2","B","%","2","6","&","x","=","1">>,
     <<"?","s","t","a","t","u","s","=","a","c","t","i","v","e","&","s","t","a","t","u","s","=","r","e","p","e","a","l","e","d","&","q","=","%","4","1","l","l">>}

\* the characters the user types into the search input
SearchAlphabet == {"e", "W", " "}

\* the value of the search input after one more keystroke: a character more or one less
SearchEdits(text) ==
    {Append(text, c) : c \in IF Len(text) < MaxQueryLen THEN SearchAlphabet ELSE {}}
    \cup (IF text # <<>> THEN {SubSeq(text, 1, Len(text) - 1)} ELSE {})

\* the values of the options of the part and the status select
PartOptions == {S_all, S_preamble, S_article, S_amendment}
StatusOptions == {S_all, S_active, S_repealed}

\* the values of the controls that applyStateToControls sets from a state
ControlsOf(state) ==
    [search |-> state.q, part |-> state.part, article |-> state.article,
     amendment |-> state.amendment, status |-> state.status]

ClientInit ==
    /\ cPageData \in ClientDatasets
    /\ cIndexData \in ClientDatasets
    /\ cElements = EntryElements(buildContent(normalize(Arr(cPageData))).html)
    /\ cHeadings = SectionHeadings(buildContent(normalize(Arr(cPageData))).html)
    /\ cLoaded = FALSE
    /\ cIndex = <<>>
    /\ cControls = ControlsOf(DEFAULTS)
    /\ cState = DEFAULTS
    /\ cHidden = [i \in 1..Len(cElements) |-> FALSE]
    /\ cAriaHidden = [i \in 1..Len(cElements) |-> "unset"]
    /\ cHeadingHidden = [h \in 1..Len(cHeadings) |-> FALSE]
    /\ cResults = [shown |-> -1, total |-> -1]
    /\ cSummary = <<>>
    /\ cSearch \in InitialSearches

ClientIdle ==
    /\ cPageData = <<>>
    /\ cIndexData = <<>>
    /\ cElements = <<>>
    /\ cHeadings = <<>>
    /\ cLoaded = FALSE
    /\ cIndex = <<>>
    /\ cControls = ControlsOf(DEFAULTS)
    /\ cState = DEFAULTS
    /\ cHidden = <<>>
    /\ cAriaHidden = <<>>
    /\ cHeadingHidden = <<>>
    /\ cResults = [shown |-> -1, total |-> -1]
    /\ cSummary = <<>>
    /\ cSearch = <<>>

(* apply(), run with the controls holding controlValues and the index        *)
(* searchIndex: the new state, the visibility of every entry element and     *)
(* heading, the result line, the summary and the URL.  (Each \E ranges over  *)
(* one value: it names an intermediate result of the function.)              *)
ApplyWith(controlValues, searchIndex) ==
    \E state \in {applyState(controlValues, searchIndex)} :
    \E visible \in {visibleFlags(state, searchIndex, cElements)} :
    \E visibleEntries \in {visibleEntriesOf(visible, searchIndex, cElements)} :
        /\ cControls' = controlValues
        /\ cState' = state
        /\ cHidden' = [i \in 1..Len(cElements) |-> ~visible[i]]
        /\ cAriaHidden' = ariaHiddenAfter(visible, searchIndex, cElements, cAriaHidden)
        /\ cHeadingHidden' = [h \in 1..Len(cHeadings) |->
                                ~headingHasVisibleEntries(cHeadings[h], visibleEntries)]
        /\ cResults' = [shown |-> Len(visibleEntries), total |-> Len(cElements)]
        /\ cSummary' = buildActiveFilterSummary(state)
        /\ cSearch' = writeStateToUrl(state)

(* The callback of loadIndex(entryElements).then: the index is the one the   *)
(* build wrote (JSON.stringify and JSON.parse keep its strings, numbers,     *)
(* booleans and nulls); the selects get their options, the state is read     *)
(* from the URL and put into the controls, and apply runs once.              *)
IndexLoaded ==
    /\ ~cLoaded
    /\ \E searchIndex \in {projectSearchIndex(normalize(Arr(cIndexData))).html} :
       \E state \in {getStateFromParams(cSearch, ArticleValues(searchIndex),
                                        AmendmentValues(searchIndex))} :
            /\ cIndex' = searchIndex
            /\ ApplyWith(ControlsOf(state), searchIndex)
    /\ cLoaded' = TRUE
    /\ UNCHANGED <<cPageData, cIndexData, cElements, cHeadings>>
    /\ UNCHANGED <<buildVars, injectVars, swVars, viewVars, drawerVars>>

\* an input event of the search input
SearchInput(text) ==
    /\ cLoaded
    /\ ApplyWith([cControls EXCEPT !.search = text], cIndex)
    /\ UNCHANGED <<cPageData, cIndexData, cElements, cHeadings, cLoaded, cIndex>>
    /\ UNCHANGED <<buildVars, injectVars, swVars, viewVars, drawerVars>>

\* a change event of the part select
PartChange(value) ==
    /\ cLoaded
    /\ ApplyWith([cControls EXCEPT !.part = value], cIndex)
    /\ UNCHANGED <<cPageData, cIndexData, cElements, cHeadings, cLoaded, cIndex>>
    /\ UNCHANGED <<buildVars, injectVars, swVars, viewVars, drawerVars>>

\* a change event of the article select
ArticleChange(value) ==
    /\ cLoaded
    /\ ApplyWith([cControls EXCEPT !.article = value], cIndex)
    /\ UNCHANGED <<cPageData, cIndexData, cElements, cHeadings, cLoaded, cIndex>>
    /\ UNCHANGED <<buildVars, injectVars, swVars, viewVars, drawerVars>>

\* a change event of the amendment select
AmendmentChange(value) ==
    /\ cLoaded
    /\ ApplyWith([cControls EXCEPT !.amendment = value], cIndex)
    /\ UNCHANGED <<cPageData, cIndexData, cElements, cHeadings, cLoaded, cIndex>>
    /\ UNCHANGED <<buildVars, injectVars, swVars, viewVars, drawerVars>>

\* a change event of the status select
StatusChange(value) ==
    /\ cLoaded
    /\ ApplyWith([cControls EXCEPT !.status = value], cIndex)
    /\ UNCHANGED <<cPageData, cIndexData, cElements, cHeadings, cLoaded, cIndex>>
    /\ UNCHANGED <<buildVars, injectVars, swVars, viewVars, drawerVars>>

\* a click of the reset button: resetFiltersAndApply
ResetClick ==
    /\ cLoaded
    /\ ApplyWith(ControlsOf(DEFAULTS), cIndex)
    /\ UNCHANGED <<cPageData, cIndexData, cElements, cHeadings, cLoaded, cIndex>>
    /\ UNCHANGED <<buildVars, injectVars, swVars, viewVars, drawerVars>>

ClientNext ==
    \/ IndexLoaded
    \/ \E text \in SearchEdits(cControls.search) : SearchInput(text)
    \/ \E value \in PartOptions : PartChange(value)
    \/ \E value \in ArticleValues(cIndex) : ArticleChange(value)
    \/ \E value \in AmendmentValues(cIndex) : AmendmentChange(value)
    \/ \E value \in StatusOptions : StatusChange(value)
    \/ ResetClick

---------------------------------------------------------------------------
(* The client when the fetch of the search index fails: loadIndex's catch *)

\* an article number that is no integer
RecArticleHalf ==
    RawRecord(Str(<<"a","1","s","3">>), Str(S_section), Str(<<"O","r">>), Undef,
              Num(3), Half(1), Num(3), Undef)

\* the entries the page was built from; the index of the same build is not served
FallbackDatasets ==
    {<<RecPreamble, RecArticle1, RecArticle1b, RecAmendment18, RecAmendment21>>,
     <<RecPreamble, RecArticle1, RecArticleHalf, RecAmendment18>>}

\* window.location.search when the page is opened
FallbackSearches ==
    {<<>>,
     <<"?","a","r","t","i","c","l","e","=","1","&","s","t","a","t","u","s","=","a","c","t","i","v","e">>,
     <<"?","a","r","t","i","c","l","e","=","1",".","5">>,
     <<"?","p","a","r","t","=","a","m","e","n","d","m","e","n","t","&","a","m","e","n","d","m","e","n","t","=","1","8">>}

FallbackInit ==
    /\ cPageData \in FallbackDatasets
    /\ cIndexData = cPageData
    /\ cElements = EntryElements(buildContent(normalize(Arr(cPageData))).html)
    /\ cHeadings = SectionHeadings(buildContent(normalize(Arr(cPageData))).html)
    /\ cLoaded = FALSE
    /\ cIndex = <<>>
    /\ cControls = ControlsOf(DEFAULTS)
    /\ cState = DEFAULTS
    /\ cHidden = [i \in 1..Len(cElements) |-> FALSE]
    /\ cAriaHidden = [i \in 1..Len(cElements) |-> "unset"]
    /\ cHeadingHidden = [h \in 1..Len(cHeadings) |-> FALSE]
    /\ cResults = [shown |-> -1, total |-> -1]
    /\ cSummary = <<>>
    /\ cSearch \in FallbackSearches

(* loadIndex when fetch rejects, the response is not ok or the payload is no *)
(* array: the index is made from the entry elements, and the callback runs   *)
IndexLoadFails ==
    /\ ~cLoaded
    /\ \E searchIndex \in {makeFallbackIndex(cElements)} :
       \E state \in {getStateFromParams(cSearch, ArticleValues(searchIndex),
                                        AmendmentValues(searchIndex))} :
            /\ cIndex' = searchIndex
            /\ ApplyWith(ControlsOf(state), searchIndex)
    /\ cLoaded' = TRUE
    /\ UNCHANGED <<cPageData, cIndexData, cElements, cHeadings>>
    /\ UNCHANGED <<buildVars, injectVars, swVars, viewVars, drawerVars>>

FallbackNext ==
    \/ IndexLoadFails
    \/ \E text \in SearchEdits(cControls.search) : SearchInput(text)
    \/ \E value \in PartOptions : PartChange(value)
    \/ \E value \in ArticleValues(cIndex) : ArticleChange(value)
    \/ \E value \in AmendmentValues(cIndex) : AmendmentChange(value)
    \/ \E value \in StatusOptions : StatusChange(value)
    \/ ResetClick

---------------------------------------------------------------------------
(* The filter state from its sources: the query of the URL the page is     *)
(* opened with, whichever way the index is loaded, and the controls         *)

\* the entries of the build: an article number that is no integer among them
SanitizeDataset == <<RecPreamble, RecArticle1, RecArticleHalf, RecAmendment18>>

(* window.location.search when the page is opened: no query; every field    *)
(* with a value that is not allowed; every field with an allowed value; the *)
(* numbers of the index in the other field; a q of whitespace and a part in *)
(* capitals; the article number that is no integer                          *)
SanitizeSearches ==
    {<<>>,
     <<"?","p","a","r","t","=","b","o","g","u","s","&","s","t","a","t","u","s","=","n","e","v","e","r","&","a","r","t","i","c","l","e","=","9","&","a","m","e","n","d","m","e","n","t","=","x","&","q","=","+","W","+">>,
     <<"?","p","a","r","t","=","a","m","e","n","d","m","e","n","t","&","s","t","a","t","u","s","=","r","e","p","e","a","l","e","d","&","a","r","t","i","c","l","e","=","1","&","a","m","e","n","d","m","e","n","t","=","1","8","&","q","=","W","e">>,
     <<"?","a","r","t","i","c","l","e","=","1","8","&","a","m","e","n","d","m","e","n","t","=","1">>,
     <<"?","q","=","+","&","p","a","r","t","=","A","r","t","i","c","l","e">>,
     <<"?","a","r","t","i","c","l","e","=","1",".","5","&","q","=","%","0","9","e">>}

SanitizeInit ==
    /\ cPageData = SanitizeDataset
    /\ cIndexData = cPageData
    /\ cElements = EntryElements(buildContent(normalize(Arr(cPageData))).html)
    /\ cHeadings = SectionHeadings(buildContent(normalize(Arr(cPageData))).html)
    /\ cLoaded = FALSE
    /\ cIndex = <<>>
    /\ cControls = ControlsOf(DEFAULTS)
    /\ cState = DEFAULTS
    /\ cHidden = [i \in 1..Len(cElements) |-> FALSE]
    /\ cAriaHidden = [i \in 1..Len(cElements) |-> "unset"]
    /\ cHeadingHidden = [h \in 1..Len(cHeadings) |-> FALSE]
    /\ cResults = [shown |-> -1, total |-> -1]
    /\ cSummary = <<>>
    /\ cSearch \in SanitizeSearches

\* the index is fetched or made from the page; then the events of the controls
SanitizeNext ==
    \/ IndexLoaded
    \/ IndexLoadFails
    \/ \E text \in SearchEdits(cControls.search) : SearchInput(text)
    \/ \E value \in PartOptions : PartChange(value)
    \/ \E value \in ArticleValues(cIndex) : ArticleChange(value)
    \/ \E value \in AmendmentValues(cIndex) : AmendmentChange(value)
    \/ \E value \in StatusOptions : StatusChange(value)
    \/ ResetClick

---------------------------------------------------------------------------
(* The service worker, public/sw.js.  A URL of the worker's origin is a   *)
(* record of its pathname and its search; a Response is a record of the   *)
(* URL it answers, its status and the deploy of the site it came from.  A *)
(* cache is the list of its entries in insertion order, and the cache     *)
(* storage maps the names of the existing caches to their contents.       *)

CACHE_NAME == "usconstitution-v1"

\* APP_SHELL without "/index.html"
APP_SHELL_WithoutIndex == <<<<"/">>, <<"/","a","b","o","u","t",".","h","t","m","l">>, <<"/","f","a","v","i","c","o","n",".","s","v","g">>>>

APP_SHELL == <<<<"/">>, <<"/","i","n","d","e","x",".","h","t","m","l">>, <<"/","a","b","o","u","t",".","h","t","m","l">>, <<"/","f","a","v","i","c","o","n",".","s","v","g">>>>

STATIC_DESTINATIONS == {"script", "style", "image", "font"}

Url(path, search) == [path |-> path, search |-> search]

Response(url, status, version) ==
    [t |-> "response", url |-> url, status |-> status, version |-> version]

\* Response.ok
ResponseOk(response) == response.status >= 200 /\ response.status <= 299

\* String.prototype.startsWith and endsWith
StartsWith(s, prefix) == HasAt(s, prefix, 1)

EndsWith(s, suffix) == HasAt(s, suffix, Len(s) - Len(suffix) + 1)

\* the files the site's server holds: the app shell and the built assets
ServerFiles ==
    {APP_SHELL[k] : k \in 1..Len(APP_SHELL)}
    \cup {<<"/","n","o","t","e","s",".","h","t","m","l">>, <<"/","a","s","s","e","t","s","/","a","p","p",".","j","s">>, <<"/","d","a","t","a","/","s","e","a","r","c","h","-","i","n","d","e","x",".","j","s","o","n">>}

\* what fetch() resolves to when the network answers
Serve(url, version) ==
    Response(url, IF url.path \in ServerFiles THEN 200 ELSE 404, version)

\* caches.open(name), which creates the cache when there is none
OpenCache(storage, name) ==
    IF name \in DOMAIN storage THEN storage
    ELSE [n \in DOMAIN storage \cup {name} |-> IF n = name THEN <<>> ELSE storage[n]]

\* cache.match(url, { ignoreSearch }): the first entry that matches, or undefined
CacheMatch(cache, url, ignoreSearch) ==
    LET hits == {k \in 1..Len(cache) :
                    /\ cache[k].key.path = url.path
                    /\ ignoreSearch \/ cache[k].key.search = url.search}
    IN  IF hits = {} THEN Undef
        ELSE cache[CHOOSE k \in hits : \A j \in hits : k <= j].response

\* cache.put(url, response): the entry of the same URL is replaced
CachePut(cache, url, response) ==
    SelectSeq(cache, LAMBDA e : e.key # url) \o <<[key |-> url, response |-> response]>>

\* cache.addAll(urls) once every fetch has resolved with an ok response
RECURSIVE CacheAddAll(_, _, _)
CacheAddAll(cache, urls, version) ==
    IF urls = <<>> THEN cache
    ELSE CacheAddAll(CachePut(cache, Url(Head(urls), <<>>),
                              Serve(Url(Head(urls), <<>>), version)),
                     Tail(urls), version)

\* the caches of earlier versions of the site and of other scripts of the origin
OtherCacheNames == {"usconstitution-v0", "fonts"}

StaleEntry == [key |-> Url(<<"/">>, <<>>), response |-> Response(Url(<<"/">>, <<>>), 200, 0)]

InitialStorages ==
    {[n \in names |-> <<StaleEntry>>] : names \in SUBSET OtherCacheNames}

Request(method, origin, mode, destination, path, search) ==
    [method |-> method, origin |-> origin, mode |-> mode, destination |-> destination,
     url |-> Url(path, search)]

NoRequest == Request("", "", "", "", <<>>, <<>>)

\* the requests of the pages the worker controls
SWRequests ==
    {Request("GET", "same", "navigate", "document", path, search) :
        path \in {<<"/">>, <<"/","n","o","t","e","s",".","h","t","m","l">>}, search \in {<<>>, <<"?","q","=","w","e">>}}
    \cup {Request("GET", "same", "navigate", "document", path, <<>>) :
        path \in {<<"/","a","b","o","u","t",".","h","t","m","l">>, <<"/","m","i","s","s","i","n","g">>}}
    \cup {Request("POST", "same", "navigate", "document", <<"/">>, <<>>),
          Request("GET", "cross", "no-cors", "image", <<"/","l","o","g","o",".","p","n","g">>, <<>>),
          Request("GET", "same", "cors", "", <<"/","d","a","t","a","/","s","e","a","r","c","h","-","i","n","d","e","x",".","j","s","o","n">>, <<>>),
          Request("GET", "same", "cors", "", <<"/","r","o","b","o","t","s",".","t","x","t">>, <<>>)}

isStaticAsset(request) ==
    \/ request.destination \in STATIC_DESTINATIONS
    \/ StartsWith(request.url.path, <<"/","a","s","s","e","t","s","/">>)
    \/ EndsWith(request.url.path, <<".","j","s","o","n">>)
    \/ request.url.path = <<"/","f","a","v","i","c","o","n",".","s","v","g">>

\* where the fetch listener sends a request
Dispatch(request) ==
    IF request.method # "GET" THEN "passthrough"
    ELSE IF request.origin # "same" THEN "passthrough"
    ELSE IF request.mode = "navigate" THEN "nav_match"
    ELSE IF ~isStaticAsset(request) THEN "passthrough"
    ELSE "cf_match"

\* event.respondWith(promise) once the promise has resolved with value: a value
\* that is no Response makes the browser answer with a network error
Settled(value) == IF value.t = "response" THEN "answered" ELSE "network_error"

SWTerminal == {"idle", "passthrough", "answered", "network_error"}

SWInit ==
    /\ swStatus = "parsed"
    /\ swCaches \in InitialStorages
    /\ swVersion = 1
    /\ swReq = NoRequest
    /\ swPc = "idle"
    /\ swSeen = <<>>
    /\ swNet = "none"
    /\ swNetResponse = Undef
    /\ swResponse = Undef
    /\ swPuts = {}

SWIdle ==
    /\ swStatus = "idle"
    /\ swCaches = <<>>
    /\ swVersion = 1
    /\ swReq = NoRequest
    /\ swPc = "idle"
    /\ swSeen = <<>>
    /\ swNet = "none"
    /\ swNetResponse = Undef
    /\ swResponse = Undef
    /\ swPuts = {}

\* a new version of the site is deployed
Deploy ==
    /\ swStatus # "idle"
    /\ swVersion < MaxDeploys
    /\ swVersion' = swVersion + 1
    /\ UNCHANGED <<swStatus, swCaches, swReq, swPc, swSeen, swNet, swNetResponse,
                   swResponse, swPuts>>
    /\ UNCHANGED <<buildVars, injectVars, clientVars, viewVars, drawerVars>>

\* the install listener, every fetch of addAll resolving with an ok response
Install ==
    /\ swStatus = "parsed"
    /\ \A k \in 1..Len(APP_SHELL) : ResponseOk(Serve(Url(APP_SHELL[k], <<>>), swVersion))
    /\ \E opened \in {OpenCache(swCaches, CACHE_NAME)} :
        swCaches' = [opened EXCEPT
            ![CACHE_NAME] = CacheAddAll(opened[CACHE_NAME], APP_SHELL, swVersion)]
    /\ swStatus' = "installed"
    /\ UNCHANGED <<swVersion, swReq, swPc, swSeen, swNet, swNetResponse, swResponse, swPuts>>
    /\ UNCHANGED <<buildVars, injectVars, clientVars, viewVars, drawerVars>>

\* the install listener, a fetch of addAll failing: nothing is added and the
\* worker is discarded
InstallFails ==
    /\ swStatus = "parsed"
    /\ swCaches' = OpenCache(swCaches, CACHE_NAME)
    /\ swStatus' = "redundant"
    /\ UNCHANGED <<swVersion, swReq, swPc, swSeen, swNet, swNetResponse, swResponse, swPuts>>
    /\ UNCHANGED <<buildVars, injectVars, clientVars, viewVars, drawerVars>>

\* the activate listener deleting every cache that caches.keys() names
ActivateDeletingEveryCache ==
    /\ swStatus = "installed"
    /\ swCaches' = [n \in {} |-> <<>>]
    /\ swStatus' = "activated"
    /\ UNCHANGED <<swVersion, swReq, swPc, swSeen, swNet, swNetResponse, swResponse, swPuts>>
    /\ UNCHANGED <<buildVars, injectVars, clientVars, viewVars, drawerVars>>

\* the activate listener; skipWaiting() has made the installed worker the one
\* to activate at once
Activate ==
    /\ swStatus = "installed"
    /\ swCaches' = [n \in {key \in DOMAIN swCaches : key = CACHE_NAME} |-> swCaches[n]]
    /\ swStatus' = "activated"
    /\ UNCHANGED <<swVersion, swReq, swPc, swSeen, swNet, swNetResponse, swResponse, swPuts>>
    /\ UNCHANGED <<buildVars, injectVars, clientVars, viewVars, drawerVars>>

\* the fetch listener; the browser hands fetch events to the activated worker
FetchEvent(request) ==
    /\ swStatus = "activated"
    /\ swPc \in SWTerminal
    /\ Cardinality(swPuts) <= MaxPendingPuts
    /\ swReq' = request
    /\ swPc' = Dispatch(request)
    /\ swSeen' = <<>>
    /\ swNet' = "none"
    /\ swNetResponse' = Undef
    /\ swResponse' = Undef
    /\ UNCHANGED <<swStatus, swCaches, swVersion, swPuts>>
    /\ UNCHANGED <<buildVars, injectVars, clientVars, viewVars, drawerVars>>

\* handleNavigationRequest up to the cached response or the call of fetch
NavCacheMatch ==
    /\ swPc = "nav_match"
    /\ \E opened \in {OpenCache(swCaches, CACHE_NAME)} :
       \E cached \in {CacheMatch(opened[CACHE_NAME], swReq.url, TRUE)} :
        /\ swCaches' = opened
        /\ swSeen' = opened[CACHE_NAME]
        /\ IF cached.t = "response"
           THEN swResponse' = cached /\ swPc' = Settled(cached)
           ELSE swResponse' = Undef /\ swPc' = "nav_fetch"
    /\ UNCHANGED <<swStatus, swVersion, swReq, swNet, swNetResponse, swPuts>>
    /\ UNCHANGED <<buildVars, injectVars, clientVars, viewVars, drawerVars>>

\* handleNavigationRequest after fetch has resolved; cache.put is not awaited
NavFetchResolves ==
    /\ swPc = "nav_fetch"
    /\ \E response \in {Serve(swReq.url, swVersion)} :
        /\ swNetResponse' = response
        /\ swNet' = IF ResponseOk(response) THEN "ok" ELSE "notok"
        /\ swPuts' = IF ResponseOk(response)
                     THEN swPuts \cup {[key |-> swReq.url, response |-> response]}
                     ELSE swPuts
        /\ swResponse' = response
        /\ swPc' = Settled(response)
    /\ UNCHANGED <<swStatus, swCaches, swVersion, swReq, swSeen>>
    /\ UNCHANGED <<buildVars, injectVars, clientVars, viewVars, drawerVars>>

\* handleNavigationRequest after fetch has rejected: the catch block
NavFetchRejects ==
    /\ swPc = "nav_fetch"
    /\ \E fallback \in {CacheMatch(swCaches[CACHE_NAME], Url(<<"/","i","n","d","e","x",".","h","t","m","l">>, <<>>), FALSE)} :
        /\ swResponse' = fallback
        /\ swPc' = Settled(fallback)
    /\ swNet' = "failed"
    /\ UNCHANGED <<swStatus, swCaches, swVersion, swReq, swSeen, swNetResponse, swPuts>>
    /\ UNCHANGED <<buildVars, injectVars, clientVars, viewVars, drawerVars>>

\* cacheFirst up to the cached response or the call of fetch
CacheFirstMatch ==
    /\ swPc = "cf_match"
    /\ \E opened \in {OpenCache(swCaches, CACHE_NAME)} :
       \E cached \in {CacheMatch(opened[CACHE_NAME], swReq.url, FALSE)} :
        /\ swCaches' = opened
        /\ swSeen' = opened[CACHE_NAME]
        /\ IF cached.t = "response"
           THEN swResponse' = cached /\ swPc' = Settled(cached)
           ELSE swResponse' = Undef /\ swPc' = "cf_fetch"
    /\ UNCHANGED <<swStatus, swVersion, swReq, swNet, swNetResponse, swPuts>>
    /\ UNCHANGED <<buildVars, injectVars, clientVars, viewVars, drawerVars>>

\* cacheFirst after fetch has resolved
CacheFirstFetchResolves ==
    /\ swPc = "cf_fetch"
    /\ \E response \in {Serve(swReq.url, swVersion)} :
        /\ swNetResponse' = response
        /\ swNet' = IF ResponseOk(response) THEN "ok" ELSE "notok"
        /\ swPuts' = IF ResponseOk(response)
                     THEN swPuts \cup {[key |-> swReq.url, response |-> response]}
                     ELSE swPuts
        /\ swResponse' = response
        /\ swPc' = Settled(response)
    /\ UNCHANGED <<swStatus, swCaches, swVersion, swReq, swSeen>>
    /\ UNCHANGED <<buildVars, injectVars, clientVars, viewVars, drawerVars>>

\* cacheFirst after fetch has rejected: the promise given to respondWith rejects
CacheFirstFetchRejects ==
    /\ swPc = "cf_fetch"
    /\ swNet' = "failed"
    /\ swPc' = "network_error"
    /\ UNCHANGED <<swStatus, swCaches, swVersion, swReq, swSeen, swNetResponse,
                   swResponse, swPuts>>
    /\ UNCHANGED <<buildVars, injectVars, clientVars, viewVars, drawerVars>>

\* a cache.put that was left running completes
CachePutCompletes ==
    /\ \E put \in swPuts :
        /\ swCaches' = [swCaches EXCEPT
                ![CACHE_NAME] = CachePut(swCaches[CACHE_NAME], put.key, put.response)]
        /\ swPuts' = swPuts \ {put}
    /\ UNCHANGED <<swStatus, swVersion, swReq, swPc, swSeen, swNet, swNetResponse, swResponse>>
    /\ UNCHANGED <<buildVars, injectVars, clientVars, viewVars, drawerVars>>

\* the steps of handleNavigationRequest that the event loop owes a request
NavSettles == NavFetchResolves \/ NavFetchRejects

SWNext ==
    \/ Deploy
    \/ Install
    \/ InstallFails
    \/ Activate
    \/ \E request \in SWRequests : FetchEvent(request)
    \/ NavCacheMatch
    \/ NavFetchResolves
    \/ NavFetchRejects
    \/ CacheFirstMatch
    \/ CacheFirstFetchResolves
    \/ CacheFirstFetchRejects
    \/ CachePutCompletes

---------------------------------------------------------------------------
(* The view controls of src/app.js: the font scale and the entry headers  *)

(* A number of the font-scale arithmetic is an IEEE-754 double.  The double *)
(* FONT_SCALE_STEP (the literal 0.05) is 7205759403792794 * 2^-57; a double *)
(* is written here as step * FONT_SCALE_STEP + ulp * 2^-57, with |ulp|      *)
(* small.  StepLow is 7205759403792794 modulo 128, and 20 steps are         *)
(* 2^57 + 8, which places the powers of two among the steps.                *)
Double(step, ulp) == [step |-> step, ulp |-> ulp]
NaN == [nan |-> TRUE]
StepLow == 26

\* the distance between neighbouring doubles around step * 0.05 + ulp * 2^-57
Spacing(step, ulp) ==
    IF step > 40 \/ (step = 40 /\ ulp >= -16) THEN 64
    ELSE IF step > 20 \/ (step = 20 /\ ulp >= -8) THEN 32
    ELSE IF step > 10 \/ (step = 10 /\ ulp >= -4) THEN 16
    ELSE 8

\* the exact value step * 0.05 + ulp * 2^-57 rounded to a double, ties to even
RoundToDouble(step, ulp) ==
    LET g == Spacing(step, ulp)
        m == (step * StepLow + ulp) % g
    IN  IF step = 0 THEN Double(0, 0)
        ELSE IF 2 * m < g THEN Double(step, ulp - m)
        ELSE IF 2 * m > g THEN Double(step, ulp + g - m)
        ELSE IF (step * StepLow + ulp - m) % (2 * g) = 0 THEN Double(step, ulp - m)
        ELSE Double(step, ulp + g - m)

(* The double a decimal text of h hundredths denotes (h a multiple of 5):   *)
(* the double nearest to h/100, which is h/5 steps less 2/5 * h/5 * 2^-57.  *)
Hundredths(h) ==
    LET step == h \div 5
        g == Spacing(step, 0 - step)
        dist(ulp) == IF 5 * ulp + 2 * step < 0 THEN 0 - (5 * ulp + 2 * step)
                     ELSE 5 * ulp + 2 * step
        grid == {ulp \in (0 - step - g)..g : (step * StepLow + ulp) % g = 0}
    IN  IF step = 0 THEN Double(0, 0)
        ELSE Double(step, CHOOSE ulp \in grid : \A other \in grid : dist(ulp) <= dist(other))

FONT_SCALE_DEFAULT == Hundredths(100)
FONT_SCALE_MIN == Hundredths(85)
FONT_SCALE_MAX == Hundredths(135)

\* a + b and a - b for b = FONT_SCALE_STEP
PlusStep(x) == RoundToDouble(x.step + 1, x.ulp)
MinusStep(x) == RoundToDouble(x.step - 1, x.ulp)

\* x < y and x <= y
Less(x, y) == x.step < y.step \/ (x.step = y.step /\ x.ulp < y.ulp)
LessEq(x, y) == x = y \/ Less(x, y)

\* Math.min and Math.max
MathMin(x, y) == IF Less(y, x) THEN y ELSE x
MathMax(x, y) == IF Less(x, y) THEN y ELSE x

clamp(value, min, max) == MathMin(max, MathMax(min, value))

\* Math.round(x * 100): x is within 2^-50 of a multiple of 0.05
RoundedPercent(x) == 5 * x.step

\* x.toFixed(2)
ToFixed2(x) ==
    NumToStr((5 * x.step) \div 100) \o <<".">>
        \o NumToStr(((5 * x.step) % 100) \div 10) \o NumToStr((5 * x.step) % 10)

(* String(x) for a double x is the shortest decimal text that reads back as *)
(* x: a text that is different for every double.  It is kept as the double  *)
(* it denotes.                                                              *)
StringOfDouble(x) == [t |-> "string", number |-> x]

\* Number(item) for an item of the storage: null and "" are 0
NumberOfItem(item) ==
    IF item = Null THEN Double(0, 0)
    ELSE IF "number" \in DOMAIN item THEN item.number
    ELSE IF Trim(item.v) = <<>> THEN Double(0, 0)
    ELSE NaN

\* what the storage may hold for the font scale when the page is opened
InitialFontScaleItems ==
    {Null, Str(<<>>), Str(<<"b","i","g">>), StringOfDouble(Hundredths(120)),
     StringOfDouble(Hundredths(300)), StringOfDouble(Hundredths(50)),
     StringOfDouble(Double(19, 2))}

\* what the storage may hold for the entry headers
InitialShowHeadersItems == {Null, Str(<<"f","a","l","s","e">>), Str(<<"t","r","u","e">>)}

getStoredFontScale ==
    IF ~storageWorks THEN FONT_SCALE_DEFAULT
    ELSE IF NumberOfItem(storedFontScale) # NaN
         THEN clamp(NumberOfItem(storedFontScale), FONT_SCALE_MIN, FONT_SCALE_MAX)
         ELSE FONT_SCALE_DEFAULT

\* the item after setStoredFontScale(value)
setStoredFontScale(value) == IF storageWorks THEN StringOfDouble(value) ELSE storedFontScale

\* the property after applyFontScale(value)
applyFontScale(value) == ToFixed2(clamp(value, FONT_SCALE_MIN, FONT_SCALE_MAX))

getStoredEntryHeadersVisible ==
    IF storageWorks /\ storedShowHeaders = Str(<<"f","a","l","s","e">>) THEN FALSE ELSE TRUE

\* the item after setStoredEntryHeadersVisible(isVisible)
setStoredEntryHeadersVisible(isVisible) ==
    IF ~storageWorks THEN storedShowHeaders
    ELSE IF isVisible THEN Str(<<"t","r","u","e">>) ELSE Str(<<"f","a","l","s","e">>)

\* render(), run with the variables holding scale and headers
Render(scale, headers) ==
    /\ readerFontScale' = applyFontScale(scale)
    /\ hideEntryHeaders' = ~headers
    /\ sizeOutput' = NumToStr(RoundedPercent(scale)) \o <<"%">>
    /\ headersChecked' = headers
    /\ decreaseDisabled' = LessEq(scale, FONT_SCALE_MIN)
    /\ increaseDisabled' = LessEq(FONT_SCALE_MAX, scale)

ViewInit ==
    /\ vPc = "loading"
    /\ storageWorks \in BOOLEAN
    /\ storedFontScale \in InitialFontScaleItems
    /\ storedShowHeaders \in InitialShowHeadersItems
    /\ fontScale = NaN
    /\ showHeaders = TRUE
    /\ readerFontScale = <<>>
    /\ hideEntryHeaders = FALSE
    /\ sizeOutput = <<"1","0","0","%">>
    /\ headersChecked = TRUE
    /\ decreaseDisabled = FALSE
    /\ increaseDisabled = FALSE

ViewIdle ==
    /\ vPc = "loading"
    /\ storageWorks = TRUE
    /\ storedFontScale = Null
    /\ storedShowHeaders = Null
    /\ fontScale = NaN
    /\ showHeaders = TRUE
    /\ readerFontScale = <<>>
    /\ hideEntryHeaders = FALSE
    /\ sizeOutput = <<"1","0","0","%">>
    /\ headersChecked = TRUE
    /\ decreaseDisabled = FALSE
    /\ increaseDisabled = FALSE

\* initializeViewControls()
InitializeViewControls ==
    /\ vPc = "loading"
    /\ vPc' = "ready"
    /\ fontScale' = getStoredFontScale
    /\ showHeaders' = getStoredEntryHeadersVisible
    /\ Render(getStoredFontScale, getStoredEntryHeadersVisible)
    /\ UNCHANGED <<storageWorks, storedFontScale, storedShowHeaders>>
    /\ UNCHANGED <<buildVars, injectVars, clientVars, swVars, drawerVars>>

\* a click of #font-size-decrease
DecreaseClick ==
    /\ vPc = "ready"
    /\ ~decreaseDisabled
    /\ \E next \in {clamp(MinusStep(fontScale), FONT_SCALE_MIN, FONT_SCALE_MAX)} :
            /\ fontScale' = next
            /\ storedFontScale' = setStoredFontScale(next)
            /\ Render(next, showHeaders)
    /\ UNCHANGED <<vPc, storageWorks, storedShowHeaders, showHeaders>>
    /\ UNCHANGED <<buildVars, injectVars, clientVars, swVars, drawerVars>>

\* a click of #font-size-increase
IncreaseClick ==
    /\ vPc = "ready"
    /\ ~increaseDisabled
    /\ \E next \in {clamp(PlusStep(fontScale), FONT_SCALE_MIN, FONT_SCALE_MAX)} :
            /\ fontScale' = next
            /\ storedFontScale' = setStoredFontScale(next)
            /\ Render(next, showHeaders)
    /\ UNCHANGED <<vPc, storageWorks, storedShowHeaders, showHeaders>>
    /\ UNCHANGED <<buildVars, injectVars, clientVars, swVars, drawerVars>>

\* a change event of #toggle-entry-headers, which the user has set to checked
HeadersToggleChange(checked) ==
    /\ vPc = "ready"
    /\ headersChecked' = checked
    /\ showHeaders' = checked
    /\ storedShowHeaders' = setStoredEntryHeadersVisible(checked)
    /\ hideEntryHeaders' = ~checked
    /\ UNCHANGED <<vPc, storageWorks, storedFontScale, fontScale, readerFontScale, sizeOutput,
                   decreaseDisabled, increaseDisabled>>
    /\ UNCHANGED <<buildVars, injectVars, clientVars, swVars, drawerVars>>

ViewNext ==
    \/ InitializeViewControls
    \/ DecreaseClick
    \/ IncreaseClick
    \/ HeadersToggleChange(~headersChecked)

\* the number a text such as 0.95 denotes
NumberOfScaleText(text) ==
    Hundredths(DigitsToNum(SelectSeq(text, LAMBDA c : c # ".")))

\* the font scales from the minimum to the maximum in steps of 0.05
ScaleSteps == {Hundredths(5 * k) : k \in 17..27}

\* a click of one of the two font-size buttons
FontSizeClick == DecreaseClick \/ IncreaseClick

(* C15: after any clicks of the font-size buttons the scale is one of 0.85,  *)
(* 0.90, ... 1.35, the decrease button is disabled exactly at the minimum    *)
(* and the increase button exactly at the maximum, and the value a click     *)
(* stores is the value it applies to the page.                               *)
C15_FontScaleWithinSteps ==
    [][FontSizeClick =>
            /\ fontScale' \in ScaleSteps
            /\ decreaseDisabled' <=> (fontScale' = FONT_SCALE_MIN)
            /\ increaseDisabled' <=> (fontScale' = FONT_SCALE_MAX)
            /\ storageWorks =>
                    NumberOfItem(storedFontScale') = NumberOfScaleText(readerFontScale')]_vars

\* the storage holds no number for the font scale, or cannot be read
NoFontScaleStored ==
    \/ ~storageWorks
    \/ storedFontScale = Null
    \/ "v" \in DOMAIN storedFontScale

(* C19: when no font scale is stored, the storage cannot be read or the item *)
(* is no number, the page starts with the scale FONT_SCALE_DEFAULT, shown as *)
(* 100%, and with both font-size buttons enabled.                            *)
C19_DefaultFontScale ==
    [][(InitializeViewControls /\ NoFontScaleStored) =>
            /\ fontScale' = FONT_SCALE_DEFAULT
            /\ sizeOutput' = <<"1","0","0","%">>
            /\ ~decreaseDisabled'
            /\ ~increaseDisabled']_vars


---------------------------------------------------------------------------
(* The drawer and the in-page links of src/app.js, initialize()           *)

\* isDrawerMode(), with narrow telling whether the media query matches
isDrawerMode(narrow) == hasMatchMedia /\ narrow

\* setSidebarOpen(open) without the test of the drawer mode
SetSidebarOpenAnyMode(open) ==
    /\ sidebarOpen' = open
    /\ noScroll' = open
    /\ ariaExpanded' = (IF open THEN "true" ELSE "false")
    /\ ariaLabel' = (IF open THEN "Close search and filters" ELSE "Open search and filters")
    /\ backdropHidden' = ~open
    /\ showSearchTrigger' = (IF open THEN isDrawerMode(viewportNarrow) ELSE showSearchTrigger)

\* setSidebarOpen(open)
SetSidebarOpen(open) ==
    \E shouldOpen \in {open /\ isDrawerMode(viewportNarrow)} :
        /\ sidebarOpen' = shouldOpen
        /\ noScroll' = shouldOpen
        /\ ariaExpanded' = (IF shouldOpen THEN "true" ELSE "false")
        /\ ariaLabel' = (IF shouldOpen THEN "Close search and filters"
                         ELSE "Open search and filters")
        /\ backdropHidden' = ~shouldOpen
        /\ showSearchTrigger' = (IF shouldOpen THEN isDrawerMode(viewportNarrow)
                                 ELSE showSearchTrigger)

isDefaultState(state) ==
    /\ state.q = DEFAULTS.q
    /\ state.part = DEFAULTS.part
    /\ state.article = DEFAULTS.article
    /\ state.amendment = DEFAULTS.amendment
    /\ state.status = DEFAULTS.status

S_entryDash == <<"e","n","t","r","y","-">>

\* the id attribute of the i-th entry element
ElementId(i) == S_entryDash \o cElements[i].entryId

(* The links of the page with a target in the page: the links of the table  *)
(* of contents lead to the headings, the link in an entry's title leads to  *)
(* the entry.                                                               *)
PageLinks ==
    {[target |-> cHeadings[h], toc |-> TRUE] : h \in 1..Len(cHeadings)}
    \cup {[target |-> ElementId(i), toc |-> FALSE] : i \in 1..Len(cElements)}

\* whether document.getElementById(targetId) is a heading
IsHeadingId(targetId) == \E h \in 1..Len(cHeadings) : cHeadings[h] = targetId

\* isVisuallyHidden with only the headings looked at
isVisuallyHiddenHeadingsOnly(targetId, headingHidden, hidden) ==
    IF IsHeadingId(targetId)
    THEN headingHidden[CHOOSE h \in 1..Len(cHeadings) :
                            cHeadings[h] = targetId
                            /\ \A j \in 1..(h - 1) : cHeadings[j] # targetId]
    ELSE FALSE

(* isVisuallyHidden(document.getElementById(targetId)), the classes of the  *)
(* headings and the entry elements being headingHidden and hidden;          *)
(* getElementById finds the first element with the id                       *)
isVisuallyHidden(targetId, headingHidden, hidden) ==
    IF IsHeadingId(targetId)
    THEN headingHidden[CHOOSE h \in 1..Len(cHeadings) :
                            cHeadings[h] = targetId
                            /\ \A j \in 1..(h - 1) : cHeadings[j] # targetId]
    ELSE hidden[CHOOSE i \in 1..Len(cElements) :
                    ElementId(i) = targetId
                    /\ \A j \in 1..(i - 1) : ElementId(j) # targetId]

\* the page and the index it fetches: of one build, and a page older than the index
DrawerPages ==
    {[page |-> <<RecPreamble, RecArticle1, RecArticleHalf, RecAmendment18>>,
      index |-> <<RecPreamble, RecArticle1, RecArticleHalf, RecAmendment18>>],
     [page |-> <<RecArticle1, RecEscapedId>>,
      index |-> <<RecPreamble, RecArticle1, RecAmendment18>>]}

\* window.location.search when the page is opened
DrawerSearches ==
    {<<>>, <<"?","p","a","r","t","=","a","m","e","n","d","m","e","n","t">>}

\* the texts of the search input
DrawerQueries == {<<>>, <<"W","e">>}

(* The state when initialize() has returned: handleDrawerViewportChange has *)
(* run once, the index is being fetched.                                    *)
DrawerInit ==
    /\ hasMatchMedia \in BOOLEAN
    /\ viewportNarrow \in BOOLEAN
    /\ sidebarOpen = FALSE
    /\ noScroll = FALSE
    /\ ariaExpanded = "false"
    /\ ariaLabel = "Open search and filters"
    /\ backdropHidden = TRUE
    /\ showSearchTrigger = isDrawerMode(viewportNarrow)
    /\ disclosureOpen = isDrawerMode(viewportNarrow)
    /\ scrollTarget = <<>>
    /\ \E pair \in DrawerPages : cPageData = pair.page /\ cIndexData = pair.index
    /\ cElements = EntryElements(buildContent(normalize(Arr(cPageData))).html)
    /\ cHeadings = SectionHeadings(buildContent(normalize(Arr(cPageData))).html)
    /\ cLoaded = FALSE
    /\ cIndex = <<>>
    /\ cControls = ControlsOf(DEFAULTS)
    /\ cState = DEFAULTS
    /\ cHidden = [i \in 1..Len(cElements) |-> FALSE]
    /\ cAriaHidden = [i \in 1..Len(cElements) |-> "unset"]
    /\ cHeadingHidden = [h \in 1..Len(cHeadings) |-> FALSE]
    /\ cResults = [shown |-> -1, total |-> -1]
    /\ cSummary = <<>>
    /\ cSearch \in DrawerSearches

\* a page without window.matchMedia, its drawer closed
DrawerIdle ==
    /\ hasMatchMedia = FALSE
    /\ viewportNarrow = FALSE
    /\ sidebarOpen = FALSE
    /\ noScroll = FALSE
    /\ ariaExpanded = "false"
    /\ ariaLabel = "Open search and filters"
    /\ backdropHidden = TRUE
    /\ showSearchTrigger = FALSE
    /\ disclosureOpen = FALSE
    /\ scrollTarget = <<>>

\* a click of #mobile-search-toggle
ToggleClick ==
    /\ SetSidebarOpen(~sidebarOpen)
    /\ UNCHANGED <<hasMatchMedia, viewportNarrow, disclosureOpen, scrollTarget>>
    /\ UNCHANGED <<buildVars, injectVars, clientVars, swVars, viewVars>>

\* a click of #sidebar-backdrop, which is shown: closeSidebar
BackdropClick ==
    /\ ~backdropHidden
    /\ SetSidebarOpen(FALSE)
    /\ UNCHANGED <<hasMatchMedia, viewportNarrow, disclosureOpen, scrollTarget>>
    /\ UNCHANGED <<buildVars, injectVars, clientVars, swVars, viewVars>>

\* a keydown event of the window
KeyDown(key) ==
    /\ IF key = "Escape" /\ sidebarOpen
       THEN SetSidebarOpen(FALSE)
       ELSE UNCHANGED <<sidebarOpen, noScroll, ariaExpanded, ariaLabel, backdropHidden,
                        showSearchTrigger>>
    /\ UNCHANGED <<hasMatchMedia, viewportNarrow, disclosureOpen, scrollTarget>>
    /\ UNCHANGED <<buildVars, injectVars, clientVars, swVars, viewVars>>

(* The viewport gets wider or narrower than 1080px; where there is a media  *)
(* query list, its change event runs handleDrawerViewportChange.            *)
ViewportChange ==
    /\ viewportNarrow' = ~viewportNarrow
    /\ IF hasMatchMedia
       THEN /\ sidebarOpen' = FALSE
            /\ noScroll' = FALSE
            /\ ariaExpanded' = "false"
            /\ ariaLabel' = "Open search and filters"
            /\ backdropHidden' = TRUE
            /\ disclosureOpen' = isDrawerMode(viewportNarrow')
            /\ showSearchTrigger' = isDrawerMode(viewportNarrow')
       ELSE UNCHANGED <<sidebarOpen, noScroll, ariaExpanded, ariaLabel, backdropHidden,
                        disclosureOpen, showSearchTrigger>>
    /\ UNCHANGED <<hasMatchMedia, scrollTarget>>
    /\ UNCHANGED <<buildVars, injectVars, clientVars, swVars, viewVars>>

(* A click of a link whose href is # and the id of an element of the page:  *)
(* the filters are reset where the target is hidden or a link of the table  *)
(* of contents is clicked with a filter set, and a link of the table of     *)
(* contents closes the drawer.  In between scrollToTargetId pushes the      *)
(* target to the URL as its hash, scrolls to it and focuses it;             *)
(* window.location.search stays as it is.                                   *)
AnchorClick(link) ==
    /\ IF cLoaded /\ (\/ isVisuallyHidden(link.target, cHeadingHidden, cHidden)
                      \/ link.toc /\ ~isDefaultState(cState))
       THEN ApplyWith(ControlsOf(DEFAULTS), cIndex)
       ELSE UNCHANGED <<cControls, cState, cHidden, cAriaHidden, cHeadingHidden, cResults,
                        cSummary, cSearch>>
    /\ scrollTarget' = link.target
    /\ IF link.toc /\ isDrawerMode(viewportNarrow)
       THEN SetSidebarOpen(FALSE)
       ELSE UNCHANGED <<sidebarOpen, noScroll, ariaExpanded, ariaLabel, backdropHidden,
                        showSearchTrigger>>
    /\ UNCHANGED <<hasMatchMedia, viewportNarrow, disclosureOpen>>
    /\ UNCHANGED <<cPageData, cIndexData, cElements, cHeadings, cLoaded, cIndex>>
    /\ UNCHANGED <<buildVars, injectVars, swVars, viewVars>>

DrawerNext ==
    \/ ToggleClick
    \/ BackdropClick
    \/ \E key \in {"Escape", "Enter"} : KeyDown(key)
    \/ ViewportChange
    \/ \E link \in PageLinks : AnchorClick(link)
    \/ IndexLoaded
    \/ \E text \in DrawerQueries : SearchInput(text)
    \/ \E value \in PartOptions : PartChange(value)
    \/ \E value \in ArticleValues(cIndex) : ArticleChange(value)
    \/ \E value \in AmendmentValues(cIndex) : AmendmentChange(value)
    \/ \E value \in StatusOptions : StatusChange(value)
    \/ ResetClick

\* the drawer is open as far as the body's class says
DrawerShownOpen ==
    /\ noScroll <=> sidebarOpen
    /\ backdropHidden <=> ~sidebarOpen
    /\ (ariaExpanded = "true") <=> sidebarOpen

(* C16: the sidebar is open only while the viewport is in drawer mode;      *)
(* no-scroll is set exactly when it is open, the backdrop is hidden exactly *)
(* when it is closed, aria-expanded is true exactly when it is open; and a  *)
(* viewport change, an Escape key and a backdrop click leave it closed.     *)
C16_DrawerOpenOnlyInDrawerMode ==
    /\ []((sidebarOpen => (hasMatchMedia /\ viewportNarrow)) /\ DrawerShownOpen)
    /\ [][(ViewportChange \/ KeyDown("Escape") \/ BackdropClick) => ~sidebarOpen']_vars

C16_Witness ==
    /\ sidebarOpen
    /\ viewportNarrow
    /\ noScroll
    /\ ~backdropHidden
    /\ ariaExpanded = "true"
    /\ cLoaded

\* the page as apply leaves it with the default state
ShowsDefaults ==
    /\ cState = DEFAULTS
    /\ cControls = ControlsOf(DEFAULTS)
    /\ cHidden = [i \in 1..Len(cElements) |-> ~visibleFlags(DEFAULTS, cIndex, cElements)[i]]
    /\ cSearch = <<>>

\* the first element of the page with the id targetId has the class is-hidden
TargetHidden(targetId, headingHidden, hidden) ==
    \/ \E h \in 1..Len(cHeadings) :
            /\ cHeadings[h] = targetId
            /\ \A j \in 1..(h - 1) : cHeadings[j] # targetId
            /\ headingHidden[h]
    \/ \E i \in 1..Len(cElements) :
            /\ ElementId(i) = targetId
            /\ \A j \in 1..(i - 1) : ElementId(j) # targetId
            /\ hidden[i]

(* C18: after the click of a link to an element of the page the target is   *)
(* not hidden by a filter (it is hidden only with the default state, and    *)
(* not at all where the page and the index are of one build); where the     *)
(* target was hidden, or the link is one of the table of contents and a     *)
(* filter was set, the state is the default state and has been applied;     *)
(* before the index has loaded as after.                                    *)
C18_LinkTargetNotFilteredOut ==
    [][\A link \in {l \in PageLinks : l.target = scrollTarget'} :
            AnchorClick(link) =>
                /\ TargetHidden(link.target, cHeadingHidden', cHidden')
                        => (isDefaultState(cState') /\ cPageData # cIndexData)
                /\ (cLoaded /\ (\/ TargetHidden(link.target, cHeadingHidden, cHidden)
                                \/ link.toc /\ ~isDefaultState(cState)))
                        => ShowsDefaults']_vars

\* a link to an entry that a filter hides can be clicked, the drawer being open
C18_Witness ==
    /\ cLoaded
    /\ scrollTarget # <<>>
    /\ ~isDefaultState(cState)
    /\ sidebarOpen
    /\ \E link \in PageLinks :
            ~link.toc /\ TargetHidden(link.target, cHeadingHidden, cHidden)
    /\ \E link \in PageLinks :
            link.toc /\ ~TargetHidden(link.target, cHeadingHidden, cHidden)

\* an id that is prefix followed by digits
IsNumberedId(id, prefix) ==
    /\ Len(id) > Len(prefix)
    /\ SubSeq(id, 1, Len(prefix)) = prefix
    /\ \A k \in (Len(prefix) + 1)..Len(id) : id[k] \in {"0","1","2","3","4","5","6","7","8","9"}

\* the ids part-preamble, part-articles, part-amendments, part-article-N, part-amendment-N
IsPartHeadingId(id) ==
    \/ id \in {<<"p","a","r","t","-","p","r","e","a","m","b","l","e">>,
               <<"p","a","r","t","-","a","r","t","i","c","l","e","s">>,
               <<"p","a","r","t","-","a","m","e","n","d","m","e","n","t","s">>}
    \/ IsNumberedId(id, <<"p","a","r","t","-","a","r","t","i","c","l","e","-">>)
    \/ IsNumberedId(id, <<"p","a","r","t","-","a","m","e","n","d","m","e","n","t","-">>)

\* the entry element belongs to the part, and to the number, the heading's id names
BelongsToHeading(element, id) ==
    \/ id = <<"p","a","r","t","-","p","r","e","a","m","b","l","e">> /\ element.part = S_preamble
    \/ id = <<"p","a","r","t","-","a","r","t","i","c","l","e","s">> /\ element.part = S_article
    \/ id = <<"p","a","r","t","-","a","m","e","n","d","m","e","n","t","s">>
            /\ element.part = S_amendment
    \/ /\ element.part = S_article
       /\ id = <<"p","a","r","t","-","a","r","t","i","c","l","e","-">> \o element.article
    \/ /\ element.part = S_amendment
       /\ id = <<"p","a","r","t","-","a","m","e","n","d","m","e","n","t","-">> \o element.amendment

---------------------------------------------------------------------------
(* Specifications *)

InitBuild == BuildInit /\ InjectIdle /\ ClientIdle /\ SWIdle /\ ViewIdle /\ DrawerIdle

SpecBuild == InitBuild /\ [][BuildNext]_vars

InitInject == InjectInit /\ BuildIdle /\ ClientIdle /\ SWIdle /\ ViewIdle /\ DrawerIdle

SpecInject == InitInject /\ [][InjectNext]_vars

InitClient == ClientInit /\ BuildIdle /\ InjectIdle /\ SWIdle /\ ViewIdle /\ DrawerIdle

SpecClient == InitClient /\ [][ClientNext]_vars

InitFallback == FallbackInit /\ BuildIdle /\ InjectIdle /\ SWIdle /\ ViewIdle /\ DrawerIdle

SpecFallback == InitFallback /\ [][FallbackNext]_vars

InitView == ViewInit /\ BuildIdle /\ InjectIdle /\ ClientIdle /\ SWIdle /\ DrawerIdle

SpecView == InitView /\ [][ViewNext]_vars

InitDrawer == DrawerInit /\ BuildIdle /\ InjectIdle /\ SWIdle /\ ViewIdle

SpecDrawer == InitDrawer /\ [][DrawerNext]_vars

InitSanitize == SanitizeInit /\ BuildIdle /\ InjectIdle /\ SWIdle /\ ViewIdle /\ DrawerIdle

SpecSanitize == InitSanitize /\ [][SanitizeNext]_vars

InitSW == SWInit /\ BuildIdle /\ InjectIdle /\ ClientIdle /\ ViewIdle /\ DrawerIdle

\* a cache.match resolves and a fetch settles: the handler's awaits come back
SpecSW ==
    InitSW /\ [][SWNext]_vars /\ WF_vars(NavCacheMatch) /\ WF_vars(NavSettles)

---------------------------------------------------------------------------
(* Claims about the build *)

\* main has called normalize and it returned
Normalized ==
    \/ buildPc \in {"normalized", "toc", "content", "prerender", "index", "llm", "done"}
    \/ (buildPc = "failed" /\ ~normalizeThrows(rawData))

(* C4: for every entry returned by normalize, isRepealed is true if and only *)
(* if the entry has a repeal date, that is, its normalized repealedOn is not *)
(* null.                                                                      *)
C4_RepealedIffRepealDate ==
    Normalized =>
        \A i \in 1..Len(entries) : entries[i].isRepealed <=> (entries[i].repealedOn # Null)

\* the entries es are the normalized records of data, each once, in some order
IsPermutationOfInput(es, data) ==
    /\ Len(es) = Len(data.v)
    /\ \E f \in Permutations(1..Len(es)) :
            \A i \in 1..Len(es) : es[i] = normalizeEntry(data.v[f[i]])

\* data with its records in the order f
Reordered(data, f) == Arr([i \in 1..Len(data.v) |-> data.v[f[i]]])

(* C5: the entries returned by normalize are a permutation of the input      *)
(* records in non-decreasing position order, any two distinct entries have   *)
(* different positions, and the output is the same for every permutation of  *)
(* the same input records.                                                    *)
C5_TotalOrderByPosition ==
    Normalized =>
        /\ IsPermutationOfInput(entries, rawData)
        /\ \A i, j \in 1..Len(entries) : i < j => entries[i].position <= entries[j].position
        /\ \A i, j \in 1..Len(entries) : i # j => entries[i].position # entries[j].position
        /\ \A f \in Permutations(1..Len(rawData.v)) : normalize(Reordered(rawData, f)) = entries

(* C6: no two entries returned by normalize have the same id, so no two      *)
(* entry elements of the generated page have the same data-entry-id, and the *)
(* index has one record per id.                                               *)
C6_UniqueIds ==
    /\ Normalized =>
            \A i, j \in 1..Len(entries) : i # j => entries[i].id # entries[j].id
    /\ buildPc \in {"content", "prerender", "index", "llm", "done"} =>
            \A i, j \in 1..Len(contentHtml) :
                (i # j /\ contentHtml[i].kind = "entry" /\ contentHtml[j].kind = "entry")
                    => contentHtml[i].entryId # contentHtml[j].entryId
    /\ buildPc \in {"index", "llm", "done"} =>
            Cardinality({searchIndexOut[i].id : i \in 1..Len(searchIndexOut)})
                = Len(searchIndexOut)

(* C7: after normalize returns, buildToc, buildContent, buildLlmMarkdown and *)
(* the search-index projection leave every field of every entry, and the     *)
(* order and length of the entry list, unchanged.                             *)
C7_EntriesImmutable == Normalized => entries = normalize(rawData)

\* the whole of main has run over at least two entries
C7_Witness == buildPc = "done" /\ Len(entries) >= 2 /\ Len(contentHtml) > Len(entries)

\* a value that is a number, or a string that spells one
IsNumeric(x) ==
    \/ x.t = "number"
    \/ x.t = "string" /\ Trim(x.v) # <<>> /\ AllDigits(Trim(x.v))

\* a field that holds a non-empty value
IsNonEmpty(x) == x.t \notin {"null", "undefined"} /\ x # Str(<<>>)

\* the input normalize is to reject
IsBadInput(data) ==
    \/ data.t # "array"
    \/ \E i \in 1..Len(data.v) :
            \/ data.v[i].t # "object"
            \/ ~IsNonEmpty(data.v[i].id)
            \/ ~IsNonEmpty(data.v[i].type)
            \/ ~IsNonEmpty(data.v[i].text)
            \/ ~IsNumeric(data.v[i].position)

(* C14: normalize throws when the data is not an array, when a record is     *)
(* null or no object, or when a record lacks a non-empty id, type or text or *)
(* a numeric position, and then main writes no generated file and not the    *)
(* page template; otherwise normalize returns one entry per input record.    *)
C14_NormalizeRejectsBadInput ==
    /\ IsBadInput(rawData) =>
            /\ buildPc \in {"parsed", "failed"}
            /\ entries = <<>>
            /\ written = <<>>
            /\ indexHtml \in PageTemplates
    /\ (~IsBadInput(rawData) /\ buildPc # "parsed") =>
            /\ Normalized
            /\ Len(entries) = Len(rawData.v)

\* buildContent has returned
ContentBuilt == buildPc \in {"content", "prerender", "index", "llm", "done"}

\* the group of an entry: its part and, for an article or an amendment, its number
GroupOf(entry) ==
    IF entry.part = S_preamble THEN [part |-> "preamble", number |-> Null]
    ELSE IF entry.part = S_article THEN [part |-> "article", number |-> entry.article]
    ELSE [part |-> "amendment", number |-> entry.amendmentNumber]

\* the places of the blocks of one kind in the generated content
BlocksOfKind(kinds) == {j \in 1..Len(contentHtml) : contentHtml[j].kind \in kinds}

\* the place of the element of the k-th entry
EntryPlace(k) ==
    CHOOSE j \in BlocksOfKind({"entry"}) :
        Cardinality({i \in BlocksOfKind({"entry"}) : i <= j}) = k

(* C12: in buildContent's output every group of entries (the preamble, each  *)
(* article number, each amendment number) has exactly one heading, the       *)
(* headings part-articles and part-amendments occur once each, every entry's *)
(* element lies in the open part-block that follows the heading of its own   *)
(* group, and every part-block is closed before the next opens and at the    *)
(* end.                                                                       *)
C12_HeadingPerGroup ==
    ContentBuilt =>
        /\ \A k \in 1..Len(entries) :
                LET g == GroupOf(entries[k])
                IN  Cardinality({j \in BlocksOfKind({"heading"}) :
                        contentHtml[j].id = PartHeadingId(g.part, g.number)}) = 1
        /\ \A part \in {S_article, S_amendment} :
                (\E k \in 1..Len(entries) : entries[k].part = part) =>
                    Cardinality({j \in BlocksOfKind({"major"}) :
                        contentHtml[j].id = S_partDash \o part \o <<"s">>}) = 1
        /\ \A k \in 1..Len(entries) :
                LET g == GroupOf(entries[k])
                    j == EntryPlace(k)
                IN  \E o \in BlocksOfKind({"open"}) :
                        /\ o < j
                        /\ \A i \in (o + 1)..(j - 1) : contentHtml[i].kind \notin {"open", "close"}
                        /\ contentHtml[o].part = g.part
                        /\ contentHtml[o].number = g.number
                        /\ contentHtml[o + 1].kind = "heading"
                        /\ contentHtml[o + 1].id = PartHeadingId(g.part, g.number)
        /\ \A o \in BlocksOfKind({"open"}) :
                \E c \in BlocksOfKind({"close"}) :
                    /\ o < c
                    /\ \A i \in (o + 1)..(c - 1) : contentHtml[i].kind \notin {"open", "close", "major"}
        /\ \A c \in BlocksOfKind({"close"}) :
                \E o \in BlocksOfKind({"open"}) :
                    /\ o < c
                    /\ \A i \in (o + 1)..(c - 1) : contentHtml[i].kind \notin {"open", "close"}

---------------------------------------------------------------------------
(* Claims about injectGenerated *)

\* source holds start followed later by end
HasMarkerPair(source, start, end) ==
    \E i, j \in 1..Len(source) :
        HasAt(source, start, i) /\ HasAt(source, end, j) /\ j >= i + Len(start)

(* source with the span from its first start marker through the first end   *)
(* marker after it replaced by start, newline, content, newline, end         *)
Spliced(source, start, end, content) ==
    LET i == FirstIndex(source, start, 1)
        j == FirstIndex(source, end, i + Len(start))
    IN  SubSeq(source, 1, i - 1)
        \o start \o <<"\n">> \o content \o <<"\n">> \o end
        \o SubSeq(source, j + Len(end), Len(source))

(* C9: injectGenerated throws when source does not contain start followed   *)
(* later by end; otherwise it returns source with the span from the first    *)
(* start marker through the first end marker after it replaced by start,     *)
(* newline, content, newline, end, the content verbatim; and injecting the   *)
(* same content again returns the same page.                                  *)
C9_InjectSplicesVerbatim ==
    /\ injPc = "thrown" => ~HasMarkerPair(injSource, injMarkers.start, injMarkers.end)
    /\ injPc \in {"once", "twice"} =>
            /\ HasMarkerPair(injSource, injMarkers.start, injMarkers.end)
            /\ injResult = Spliced(injSource, injMarkers.start, injMarkers.end, injContent)

---------------------------------------------------------------------------
(* Claims about the client's filter *)

\* whether the index record rec satisfies every criterion of the filter state
SatisfiesAll(rec, state) ==
    /\ state.part = S_all \/ state.part = rec.part
    /\ state.article = S_all
       \/ (rec.article.t = "number" /\ NumToStr(rec.article.v) = state.article)
    /\ state.amendment = S_all
       \/ (rec.amendmentNumber.t = "number" /\ NumToStr(rec.amendmentNumber.v) = state.amendment)
    /\ state.status = S_active => ~rec.isRepealed
    /\ state.status = S_repealed => rec.isRepealed
    /\ state.q = <<>> \/ Includes(rec.searchable, ToLowerCase(state.q))

(* C1: after every run of apply, the state is the sanitized form of what the *)
(* controls hold, and every entry element whose id has a record in the index *)
(* is visible if and only if that record satisfies all criteria of the state *)
(* together: part, article, amendment, status and text.                       *)
C1_VisibleIffAllCriteria ==
    cLoaded =>
        /\ cState.q = Trim(cControls.search)
        /\ cState.part = cControls.part
        /\ cState.article = cControls.article
        /\ cState.amendment = cControls.amendment
        /\ cState.status = cControls.status
        /\ \A i \in 1..Len(cElements) :
                IndexHas(cIndex, cElements[i].entryId) =>
                    (~cHidden[i] <=> SatisfiesAll(IndexGet(cIndex, cElements[i].entryId), cState))

\* apply has run with a text query and a status filter, hiding some entries and showing others
C1_Witness ==
    /\ cLoaded
    /\ cState.q # <<>>
    /\ cState.status = S_repealed
    /\ \E i, j \in 1..Len(cElements) :
            /\ IndexHas(cIndex, cElements[i].entryId) /\ cHidden[i]
            /\ IndexHas(cIndex, cElements[j].entryId) /\ ~cHidden[j]

\* the keys of the query string
StateKeys == {S_q, S_part, S_article, S_amendment, S_status}

\* the value of the state for a key of the query string
StateValue(state, key) ==
    CASE key = S_q -> state.q
      [] key = S_part -> state.part
      [] key = S_article -> state.article
      [] key = S_amendment -> state.amendment
      [] key = S_status -> state.status

(* C2: after every run of apply, the query string contains a key of q, part, *)
(* article, amendment, status if and only if the state's value for it is not *)
(* its default, the value of each present key is the state's value, and no   *)
(* other key is present.                                                      *)
C2_UrlMirrorsState ==
    cLoaded =>
        LET params == URLSearchParams(cSearch)
        IN  /\ \A key \in StateKeys :
                    (\E i \in 1..Len(params) : params[i].name = key)
                        <=> StateValue(cState, key) # StateValue(DEFAULTS, key)
            /\ \A i \in 1..Len(params) :
                    /\ params[i].name \in StateKeys
                    /\ params[i].value = StateValue(cState, params[i].name)
            /\ \A i, j \in 1..Len(params) : i # j => params[i].name # params[j].name

\* apply has written a query that holds some keys and omits others
C2_Witness ==
    /\ cLoaded
    /\ cState.q # <<>> /\ \E k \in 1..Len(cState.q) : cState.q[k] \in {" ", "+"}
    /\ cState.part # S_all
    /\ cState.article = S_all
    /\ cState.status # S_all

(* C3: reading the state back with getStateFromParams from the query string  *)
(* that writeStateToUrl produced for a sanitized state, with the same value  *)
(* sets, yields that state, and so the same visible entries.                  *)
C3_UrlRoundTrip ==
    cLoaded =>
        LET back == getStateFromParams(cSearch, ArticleValues(cIndex), AmendmentValues(cIndex))
        IN  /\ back = cState
            /\ visibleFlags(back, cIndex, cElements) = [i \in 1..Len(cElements) |-> ~cHidden[i]]

\* the state written holds a query with a space, which the URL encodes, and another filter
C3_Witness ==
    /\ cLoaded
    /\ \E k \in 1..Len(cState.q) : cState.q[k] = " "
    /\ cState.status # S_all
    /\ \E i \in 1..Len(cElements) : ~cHidden[i]
    /\ \E i \in 1..Len(cElements) : cHidden[i]

\* q, compared without regard to case, is a substring of s
ContainsIgnoringCase(s, q) == Includes(ToLowerCase(s), ToLowerCase(q))

\* q is found in the text, the id, a search tag or the title of the entry
FoundInEntry(entry, q) ==
    \/ ContainsIgnoringCase(entry.text, q)
    \/ ContainsIgnoringCase(entry.id, q)
    \/ \E t \in 1..Len(entry.searchTags) : ContainsIgnoringCase(entry.searchTags[t], q)
    \/ ContainsIgnoringCase(entry.title, q)

(* C8: with the generated search index, for every entry and every non-empty  *)
(* query q, if q compared case-insensitively is a substring of the entry's   *)
(* text, id, one of its search tags or its title, the entry's record passes  *)
(* the text criterion of matchesEntry.                                        *)
C8_SearchCoversFields ==
    cLoaded =>
        LET es == normalize(Arr(cIndexData))
        IN  \A i \in 1..Len(es) :
                /\ cIndex[i].id = es[i].id
                /\ (cState.q # <<>> /\ FoundInEntry(es[i], cState.q))
                        => matchesText(cIndex[i], cState)

\* a query in upper case is found, in another case, in the text of an entry
C8_Witness ==
    /\ cLoaded
    /\ cState.q # <<>>
    /\ \E i \in 1..Len(normalize(Arr(cIndexData))) :
            LET e == normalize(Arr(cIndexData))[i]
            IN  /\ ContainsIgnoringCase(e.text, cState.q)
                /\ ~Includes(e.text, cState.q)
                /\ ~Includes(ToLowerCase(e.text), cState.q)

\* the page and the index loaded come from the same build
SameBuild == cLoaded /\ cPageData = cIndexData

(* C13: with the page and the index of the same build, the index has one     *)
(* record per normalized entry, in the same order and with the same id,      *)
(* part, article, amendmentNumber and isRepealed; every entry element has a  *)
(* record in the index; and with the default filter state no entry is        *)
(* hidden and the result line shows M of M for the M entry elements.         *)
C13_SameBuildShowsAll ==
    SameBuild =>
        \E es \in {normalize(Arr(cPageData))} :
            /\ Len(cIndex) = Len(es)
            /\ Len(cElements) = Len(es)
            /\ \A i \in 1..Len(es) :
                    /\ cIndex[i].id = es[i].id
                    /\ cIndex[i].part = es[i].part
                    /\ cIndex[i].article = es[i].article
                    /\ cIndex[i].amendmentNumber = es[i].amendmentNumber
                    /\ cIndex[i].isRepealed = es[i].isRepealed
                    /\ cElements[i].entryId = es[i].id
            /\ \A i \in 1..Len(cElements) : IndexHas(cIndex, cElements[i].entryId)
            /\ cState = DEFAULTS =>
                    /\ \A i \in 1..Len(cElements) : ~cHidden[i]
                    /\ cResults = [shown |-> Len(cElements), total |-> Len(cElements)]

\* the filters of a page with repealed entries and an escaped id were reset to the defaults
C13_Witness ==
    /\ SameBuild
    /\ cState = DEFAULTS
    /\ cSearch = <<>>
    /\ cResults.shown = Len(cElements)
    /\ \E i \in 1..Len(cIndex) : cIndex[i].isRepealed
    /\ \E i \in 1..Len(cElements) : cAriaHidden[i] = "false"

---------------------------------------------------------------------------
(* Claims about the fallback index *)

\* the search index the build of the page's entries generated
GeneratedIndex == projectSearchIndex(normalize(Arr(cIndexData))).html

\* the state the client would hold after this step, had the generated index loaded
StateWithGeneratedIndex ==
    IF ~cLoaded
    THEN getStateFromParams(cSearch, ArticleValues(GeneratedIndex),
                            AmendmentValues(GeneratedIndex))
    ELSE applyState(cControls', GeneratedIndex)

(* C11: when the fetch of the search index fails, the index is the one      *)
(* makeFallbackIndex builds from the entry elements, and after every apply   *)
(* with an empty q the visible entries are those that would be visible with  *)
(* the generated search index of the same entries.                           *)
C11_FallbackShowsSameEntries ==
    [][(cLoaded' /\ cState'.q = <<>>) =>
            /\ cIndex' = makeFallbackIndex(cElements)
            /\ [i \in 1..Len(cElements) |-> ~cHidden'[i]]
                    = visibleFlags(StateWithGeneratedIndex, GeneratedIndex, cElements)]_vars

---------------------------------------------------------------------------
(* Claims about the service worker *)

IsNavigation(request) ==
    request.method = "GET" /\ request.origin = "same" /\ request.mode = "navigate"

IndexUrl == Url(<<"/","i","n","d","e","x",".","h","t","m","l">>, <<>>)

\* the answer the worker owes a navigation: the cached response of the path if
\* the cache held one, else what the network gave, else the cached /index.html
NavigationAnswerIsRight ==
    LET hits == {k \in 1..Len(swSeen) : swSeen[k].key.path = swReq.url.path}
        cache == swCaches[CACHE_NAME]
    IN  /\ swPc = "answered"
        /\ swResponse.t = "response"
        /\ IF hits # {}
           THEN /\ \E k \in hits : swResponse = swSeen[k].response
                /\ swNet = "none"
           ELSE IF swNet = "failed"
           THEN /\ swResponse.url = IndexUrl
                /\ \E k \in 1..Len(cache) :
                    cache[k].key = IndexUrl /\ cache[k].response = swResponse
           ELSE /\ swNet \in {"ok", "notok"}
                /\ swResponse = swNetResponse
                /\ swResponse.url = swReq.url

NavigationPending == IsNavigation(swReq) /\ swPc \in {"nav_match", "nav_fetch"}

NavigationSettled == IsNavigation(swReq) /\ swPc \in SWTerminal \ {"idle"}

\* C10: once install has succeeded, every same-origin GET navigation request is
\* answered with a response and never with an error: with the cached response
\* of its path (the query string ignored) when there is one, otherwise with the
\* network's response, and with the cached /index.html when the fetch fails.
C10_NavigationAlwaysAnswered ==
    /\ [](NavigationSettled => NavigationAnswerIsRight)
    /\ (NavigationPending ~> NavigationSettled)

\* a navigation to a page that is not cached was answered with the cached
\* /index.html after its fetch failed
C10_Witness ==
    /\ NavigationSettled
    /\ swStatus = "activated"
    /\ swNet = "failed"
    /\ swReq.url.path # IndexUrl.path
    /\ swResponse.t = "response"
    /\ swResponse.url = IndexUrl

(* C17: when the activate event has completed, every cache with another     *)
(* name than usconstitution-v1 is deleted, whatever caches there were, and  *)
(* the cache usconstitution-v1 is there with the entries it had.            *)
C17_ActivateKeepsCurrentCache ==
    /\ [](swStatus = "activated" => DOMAIN swCaches = {CACHE_NAME})
    /\ [][Activate => swCaches'[CACHE_NAME] = swCaches[CACHE_NAME]]_vars

\* the worker is activated, the app shell in its cache, no request handled yet
C17_Witness ==
    /\ swStatus = "activated"
    /\ swPc = "idle"
    /\ DOMAIN swCaches = {CACHE_NAME}
    /\ Len(swCaches[CACHE_NAME]) = Len(APP_SHELL)

---------------------------------------------------------------------------
(* Claims about the filter state *)

\* the object getStateFromParams hands to sanitizeState
RawOfParams(search) ==
    LET params == URLSearchParams(search)
    IN  [q |-> ParamOr(params, S_q, <<>>),
         part |-> ParamOr(params, S_part, DEFAULTS.part),
         article |-> ParamOr(params, S_article, DEFAULTS.article),
         amendment |-> ParamOr(params, S_amendment, DEFAULTS.amendment),
         status |-> ParamOr(params, S_status, DEFAULTS.status)]

\* the object apply hands to sanitizeState
RawOfControls(controlValues) ==
    [q |-> controlValues.search, part |-> controlValues.part,
     article |-> controlValues.article, amendment |-> controlValues.amendment,
     status |-> controlValues.status]

ValidPart(value) == value \in {S_all, S_preamble, S_article, S_amendment}

ValidStatus(value) == value \in {S_all, S_active, S_repealed}

\* "all", or the text of the article number of a record of the index
ValidArticle(value, searchIndex) ==
    \/ value = S_all
    \/ \E i \in 1..Len(searchIndex) :
            /\ searchIndex[i].article.t = "number"
            /\ JSString(searchIndex[i].article) = value

\* "all", or the text of the amendment number of a record of the index
ValidAmendment(value, searchIndex) ==
    \/ value = S_all
    \/ \E i \in 1..Len(searchIndex) :
            /\ searchIndex[i].amendmentNumber.t = "number"
            /\ JSString(searchIndex[i].amendmentNumber) = value

\* no whitespace at either end
ValidQuery(text) == text = <<>> \/ (~IsSpace(text[1]) /\ ~IsSpace(text[Len(text)]))

ValidFilterState(state, searchIndex) ==
    /\ ValidPart(state.part)
    /\ ValidStatus(state.status)
    /\ ValidArticle(state.article, searchIndex)
    /\ ValidAmendment(state.amendment, searchIndex)
    /\ ValidQuery(state.q)

\* text is rawText without the whitespace at its two ends
TrimmedFrom(text, rawText) ==
    /\ ValidQuery(text)
    /\ \E i \in 0..Len(rawText) : \E j \in i..Len(rawText) :
            /\ text = SubSeq(rawText, i + 1, j)
            /\ \A k \in (1..i) \cup ((j + 1)..Len(rawText)) : IsSpace(rawText[k])

\* the four selects' fields: a valid one is kept, another gets its default
SelectFieldsFrom(raw, state, searchIndex) ==
    /\ state.part = IF ValidPart(raw.part) THEN raw.part ELSE DEFAULTS.part
    /\ state.status = IF ValidStatus(raw.status) THEN raw.status ELSE DEFAULTS.status
    /\ state.article = IF ValidArticle(raw.article, searchIndex)
                       THEN raw.article ELSE DEFAULTS.article
    /\ state.amendment = IF ValidAmendment(raw.amendment, searchIndex)
                         THEN raw.amendment ELSE DEFAULTS.amendment

\* what the handler of this step handed to sanitizeState: the load reads the
\* query of the URL, the events and the reset read the controls
RawOfStep == IF cLoaded THEN RawOfControls(cControls') ELSE RawOfParams(cSearch)

\* sanitizing a sanitized state changes nothing, for the query and the controls
SanitizeIdempotent ==
    \A raw \in {RawOfParams(cSearch), RawOfControls(cControls)} :
        LET once == sanitizeState(raw, ArticleValues(cIndex), AmendmentValues(cIndex))
        IN  sanitizeState(once, ArticleValues(cIndex), AmendmentValues(cIndex)) = once

(* C21 as it is stated: the filter state is always valid (part and status   *)
(* among their allowed values, article and amendment "all" or a number of   *)
(* the loaded index, q without whitespace at its ends), and sanitizeState   *)
(* replaces each invalid field, q with whitespace at an end included, by    *)
(* its default, leaves each valid field unchanged and is idempotent.        *)
C21_InvalidFieldsGetDefaults ==
    /\ [](ValidFilterState(cState, cIndex) /\ SanitizeIdempotent)
    /\ [][cLoaded' =>
            /\ SelectFieldsFrom(RawOfStep, cState', cIndex')
            /\ cState'.q = IF ValidQuery(RawOfStep.q) THEN RawOfStep.q ELSE DEFAULTS.q]_vars

(* C21, amended: the filter state is always valid, after the load from any  *)
(* query, with the index fetched or made from the page, and after any       *)
(* events of the controls and resets; sanitizeState replaces an invalid     *)
(* part, status, article or amendment by its default, takes the whitespace  *)
(* off the two ends of q, leaves each valid field unchanged and is          *)
(* idempotent.                                                              *)
C21_FilterStateValid ==
    /\ [](ValidFilterState(cState, cIndex) /\ SanitizeIdempotent)
    /\ [][cLoaded' =>
            /\ SelectFieldsFrom(RawOfStep, cState', cIndex')
            /\ TrimmedFrom(cState'.q, RawOfStep.q)]_vars

\* the search input holds a text with whitespace at an end, the state the
\* text without it, and a select holds another value than "all"
C21_Witness ==
    /\ cLoaded
    /\ ~ValidQuery(cControls.search)
    /\ cState.q # <<>>
    /\ cState.q # cControls.search
    /\ cState.article # S_all

===========================================================================
